---- MODULE Spec2Model ----
(***************************************************************************)
(* Verification model of the humanitarian-chat repository: the Group       *)
(* Membership Authority (middleware/auth.js), the message routes and the   *)
(* group routes over the SQLite store, the Socket.IO session registry and  *)
(* broadcast handlers (server.js), and the browser-side offline queue      *)
(* (public/js/offline.js, public/js/app.js).                               *)
(*                                                                         *)
(* Four specifications share the variables:                                *)
(*   SpecAuth   - canAccessGroup as a function of the store                *)
(*   SpecStore  - the HTTP request handlers, one step per awaited query    *)
(*   SpecSocket - the socket event handlers                                *)
(*   SpecClient - OfflineManager and the app's offline queue               *)
(***************************************************************************)
EXTENDS Integers, Sequences, FiniteSets, Bags, TLC

(* ------------------------------ bounds --------------------------------- *)
NumUsers == 3
NumGroups == 2
MaxMsgs == 2
MaxReq == 2
MaxClock == 1
MaxOps == 2
NumSockets == 3
MaxInbox == 2
MaxEvents == 4
MaxActions == 1
MaxScans == 2
MaxSends == 4
MaxQueued == 2

Users == 1..NumUsers
GroupIds == 1..NumGroups
MsgIds == 1..MaxMsgs
ReqIds == 1..MaxReq
Times == 0..MaxClock
SockIds == 1..NumSockets
MaxEntries == IF MaxActions > MaxQueued THEN MaxActions ELSE MaxQueued
Aids == 1..MaxEntries
Keys == 1..MaxEntries
ScanIds == 1..MaxScans

(* --------------------------- program constants ------------------------- *)
GlobalRoles == {"admin", "field_staff", "volunteer"}
GroupRoles == {"member", "moderator", "admin"}
Actions == {"read", "write", "delete", "manage"}
\* an action name outside the four the authority knows
OtherAction == "export"
NoRow == "none"
NoGroup == 0
Null == -1
\* a lookup that found no row (JavaScript undefined)
Absent == [absent |-> TRUE]

VARIABLES
  \* ---- durable store (config/database.js tables) ----
  userRole,     \* users.role, per user id
  createdBy,    \* groups.created_by, NoGroup while the group row does not exist
  groupName,    \* groups.name
  members,      \* group_members: [group][user] -> group role or NoRow
  joinedAt,     \* group_members.joined_at: [group][user] -> time or Null
  msgs,         \* messages: id -> row or Absent
  tagRows,      \* message_tags rows, in insertion order
  status,       \* message_status: [msg][user] -> row or Absent
  statusRows,   \* message_status as the table of rows the statements act on
  nextMsgId,    \* next AUTOINCREMENT id of messages
  clock,        \* wall clock (CURRENT_TIMESTAMP, Date.now())
  reqs,         \* HTTP requests in flight, one record per slot
  opsLeft,      \* requests the environment may still issue
  \* ---- canAccessGroup probe ----
  authCall,     \* last call of canAccessGroup and its result
  \* ---- session registry and broadcast fabric (server.js) ----
  socks,        \* per socket id: handshake state and socket.user
  rooms,        \* socket.io rooms: per socket id, the groups whose room it is in
  activeUsers,  \* Map user id -> entry (socketId) or Absent
  userRooms,    \* Map user id -> Set of group ids, or Absent
  evictTimers,  \* pending 30 s setTimeout callbacks, per user id
  inbox,        \* events delivered to each socket, in order
  evLeft,       \* socket events the clients may still raise
  \* ---- browser client (public/js/offline.js, public/js/app.js) ----
  db,           \* OfflineManager.db is open
  omOnline,     \* OfflineManager.isOnline
  netOnline,    \* navigator.onLine
  syncStore,    \* IndexedDB object store syncQueue: key -> entry or Absent
  nextKey,      \* next autoIncrement key of syncQueue
  memQueue,     \* OfflineManager.syncQueue, the in-memory fallback
  scanTimers,   \* pending setTimeout(processSyncQueue, 100) callbacks
  scans,        \* running processSyncQueue calls: snapshot and position
  windowApp,    \* window.app is defined
  appSocket,    \* HumanitarianApp.socket: "none", "disconnected", "connected"
  appOnline,    \* HumanitarianApp.isOnline
  offlineQueue, \* HumanitarianApp.offlineQueue
  nextAid,      \* next outbound action (actions are numbered as created)
  hist,         \* per action: transmissions, confirmation, failure reports
  \* ---- browser pages of the socket sessions (public/js/app.js) ----
  currentGroup, \* HumanitarianApp.currentGroup, per session
  isTyping,     \* HumanitarianApp.isTyping
  typingTimeout,\* the 3 s timer of handleTyping is pending
  typingUsers,  \* HumanitarianApp.typingUsers: names shown as typing
  messages,     \* HumanitarianApp.messages: per group, the ids of the local list
  outbox        \* events the page has emitted and the server has not handled yet

uiVars == <<currentGroup, isTyping, typingTimeout, typingUsers, messages, outbox>>
storeVars == <<userRole, createdBy, groupName, members, joinedAt, msgs, tagRows, status, statusRows,
               nextMsgId, clock, reqs, opsLeft, uiVars>>
sockVars == <<socks, rooms, activeUsers, userRooms, evictTimers, inbox, evLeft>>
omVars == <<db, omOnline, netOnline, syncStore, nextKey, memQueue, scanTimers, scans>>
appVars == <<windowApp, appSocket, appOnline, offlineQueue>>
clientVars == <<omVars, appVars, nextAid, hist>>
nonStore == <<authCall, sockVars, clientVars, statusRows, uiVars>>
vars == <<storeVars, authCall, sockVars, clientVars>>

(* ---------------------------- browser at load -------------------------- *)
\* the value JavaScript reads from a property that an object does not have
Undefined == 0

\* new HumanitarianApp() in the page of every session: no group selected,
\* nobody typing, no local messages, nothing emitted
InitUI ==
  /\ currentGroup = [s \in SockIds |-> NoGroup]
  /\ isTyping = [s \in SockIds |-> FALSE]
  /\ typingTimeout = [s \in SockIds |-> FALSE]
  /\ typingUsers = [s \in SockIds |-> {}]
  /\ messages = [s \in SockIds |-> [g \in GroupIds |-> <<>>]]
  /\ outbox = [s \in SockIds |-> <<>>]

NoScan == [pc |-> "idle"]
NoHist == [sends |-> 0, emitted |-> 0, fails |-> 0, confirmed |-> FALSE, reports |-> 0,
           direct |-> FALSE, type |-> "none", durable |-> FALSE, rows |-> 0]

\* new OfflineManager() and new HumanitarianApp(), before init() has opened
\* the database or created the socket
InitClient ==
  /\ db = FALSE
  /\ netOnline \in BOOLEAN
  /\ omOnline = netOnline
  /\ syncStore = [k \in Keys |-> Absent]
  /\ nextKey = 1
  /\ memQueue = <<>>
  /\ scanTimers = 0
  /\ scans = [k \in ScanIds |-> NoScan]
  /\ windowApp \in BOOLEAN
  /\ appSocket = "none"
  /\ appOnline = FALSE
  /\ offlineQueue = <<>>
  /\ nextAid = 1
  /\ hist = [a \in Aids |-> NoHist]

(* ------------------------ registry at server start -------------------- *)
\* activeUsers and userRooms are empty Maps, no socket has connected
InitRegistry ==
  /\ socks = [s \in SockIds |-> [st |-> "new", user |-> 0, cred |-> "none"]]
  /\ rooms = [s \in SockIds |-> {}]
  /\ activeUsers = [u \in Users |-> Absent]
  /\ userRooms = [u \in Users |-> Absent]
  /\ evictTimers = [u \in Users |-> 0]
  /\ inbox = [s \in SockIds |-> <<>>]
  /\ evLeft = MaxEvents
  /\ InitClient

(* ------------------------- Group Membership Authority ------------------ *)
\* the row of the membership lookup: group_members JOIN groups JOIN users
MembershipRow(userId, groupId) ==
  IF groupId \in GroupIds /\ createdBy[groupId] # NoGroup /\ members[groupId][userId] # NoRow
  THEN [role |-> members[groupId][userId],
        created_by |-> createdBy[groupId],
        user_role |-> userRole[userId]]
  ELSE Absent

\* canAccessGroup with delete open to every member
CanAccessGroupLaxDelete(userId, groupId, action, lookupFails) ==
  IF lookupFails THEN FALSE
  ELSE LET membership == MembershipRow(userId, groupId) IN
    IF membership = Absent THEN FALSE
    ELSE IF membership.user_role = "admin" THEN TRUE
    ELSE IF membership.created_by = userId THEN TRUE
    ELSE CASE action = "read" -> TRUE
           [] action = "write" -> TRUE
           [] action = "delete" -> TRUE
           [] action = "manage" -> membership.role \in {"admin", "moderator"}
           [] OTHER -> FALSE

\* canAccessGroup without the membership-row test
CanAccessGroupNoRowTest(userId, groupId, action, lookupFails) ==
  IF lookupFails THEN FALSE
  ELSE LET membership == MembershipRow(userId, groupId) IN
    IF membership = Absent THEN action \in {"read", "write"}
    ELSE IF membership.user_role = "admin" THEN TRUE
    ELSE IF membership.created_by = userId THEN TRUE
    ELSE CASE action = "read" -> TRUE
           [] action = "write" -> TRUE
           [] action = "delete" -> membership.role \in {"admin", "moderator"}
           [] action = "manage" -> membership.role \in {"admin", "moderator"}
           [] OTHER -> FALSE

\* an authority whose catch block lets global admins through
CanAccessGroupFailOpen(userId, groupId, action, lookupFails) ==
  IF lookupFails THEN userRole[userId] = "admin"
  ELSE LET membership == MembershipRow(userId, groupId) IN
    IF membership = Absent THEN FALSE
    ELSE IF membership.user_role = "admin" THEN TRUE
    ELSE IF membership.created_by = userId THEN TRUE
    ELSE CASE action = "read" -> TRUE
           [] action = "write" -> TRUE
           [] action = "delete" -> membership.role \in {"admin", "moderator"}
           [] action = "manage" -> membership.role \in {"admin", "moderator"}
           [] OTHER -> FALSE

\* canAccessGroup(userId, groupId, action); lookupFails is getQuery rejecting,
\* which the catch block turns into false
CanAccessGroup(userId, groupId, action, lookupFails) ==
  IF lookupFails THEN FALSE
  ELSE LET membership == MembershipRow(userId, groupId) IN
    IF membership = Absent THEN FALSE
    ELSE IF membership.user_role = "admin" THEN TRUE
    ELSE IF membership.created_by = userId THEN TRUE
    ELSE CASE action = "read" -> TRUE
           [] action = "write" -> TRUE
           [] action = "delete" -> membership.role \in {"admin", "moderator"}
           [] action = "manage" -> membership.role \in {"admin", "moderator"}
           [] OTHER -> FALSE

(* ------------------------------ store ---------------------------------- *)
Idle == [kind |-> "idle", pc |-> "idle"]

GroupExists(g) == g \in GroupIds /\ createdBy[g] # NoGroup

\* joined_at of the rows present when the model starts
JoinedAtStart == [g \in GroupIds |-> [u \in Users |-> IF members[g][u] = NoRow THEN Null ELSE 0]]

\* users.role as registration leaves it: user 1 is the default administrator,
\* user 2 registered as admin or as field staff, the others as volunteers
RoleTables ==
  {f \in [Users -> GlobalRoles] :
     /\ f[1] = "admin"
     /\ \A u \in Users : u = 2 => f[u] \in {"admin", "field_staff"}
     /\ \A u \in Users : u > 2 => f[u] = "volunteer"}

\* the tables after initDatabase on a fresh file: the default admin (user 1)
\* and the default General group, which gets no group_members row
InitTables ==
  /\ userRole \in RoleTables
  /\ createdBy = [g \in GroupIds |-> IF g = 1 THEN 1 ELSE NoGroup]
  /\ groupName = [g \in GroupIds |-> IF g = 1 THEN "General" ELSE ""]
  /\ members = [g \in GroupIds |-> [u \in Users |-> NoRow]]
  /\ msgs = [m \in MsgIds |-> Absent]
  /\ tagRows = <<>>
  /\ joinedAt = JoinedAtStart
  /\ statusRows = EmptyBag
  /\ InitUI
  /\ status = [m \in MsgIds |-> [u \in Users |-> Absent]]
  /\ nextMsgId = 1
  /\ clock = 0
  /\ reqs = [r \in ReqIds |-> Idle]
  /\ opsLeft = MaxOps

(* ------------------- SpecAuth: canAccessGroup on any store ------------- *)
\* membership tables the group routes can produce: a group is created by a
\* global admin, who gets the admin row in a second statement; only then can
\* further rows be added, with any group role
GroupTables(g, c, row) ==
  /\ c \in Users /\ userRole[c] = "admin"
  /\ row \in [Users -> GroupRoles \cup {NoRow}]
  /\ row[c] \in {"admin", NoRow}
  /\ row[c] = NoRow => \A u \in Users : row[u] = NoRow

InitAuth ==
  /\ userRole \in {f \in [Users -> GlobalRoles] : f[1] = "admin"}
  /\ createdBy \in {f \in [GroupIds -> Users \cup {NoGroup}] :
                       f[1] = 1 /\ \A g \in GroupIds : f[g] # NoGroup => userRole[f[g]] = "admin"}
  /\ groupName = [g \in GroupIds |-> IF g = 1 THEN "General" ELSE ""]
  /\ members \in {f \in [GroupIds -> [Users -> GroupRoles \cup {NoRow}]] :
        /\ \A u \in Users : f[1][u] = NoRow
        /\ \A g \in GroupIds \ {1} :
              IF createdBy[g] = NoGroup THEN \A u \in Users : f[g][u] = NoRow
              ELSE GroupTables(g, createdBy[g], f[g])}
  /\ msgs = [m \in MsgIds |-> Absent]
  /\ tagRows = <<>>
  /\ joinedAt = JoinedAtStart
  /\ statusRows = EmptyBag
  /\ InitUI
  /\ status = [m \in MsgIds |-> [u \in Users |-> Absent]]
  /\ nextMsgId = 1
  /\ clock = 0
  /\ reqs = [r \in ReqIds |-> Idle]
  /\ opsLeft = MaxOps
  /\ authCall = Absent
  /\ InitRegistry

CallCanAccessGroup(u, g, a, fails) ==
  /\ authCall = Absent
  /\ authCall' = [userId |-> u, groupId |-> g, action |-> a, lookupFails |-> fails,
                  result |-> CanAccessGroup(u, g, a, fails)]
  /\ UNCHANGED <<storeVars, sockVars, clientVars>>

NextAuth ==
  \E u \in Users, g \in GroupIds, a \in Actions \cup {OtherAction}, fails \in BOOLEAN :
    CallCanAccessGroup(u, g, a, fails)

SpecAuth == InitAuth /\ [][NextAuth]_vars

\* C5: whenever the caller's global role is admin and the lookup answers,
\* canAccessGroup returns true for every action, membership row or not
C5_AdminAlwaysTrue ==
  (authCall # Absent /\ ~authCall.lookupFails /\ userRole[authCall.userId] = "admin")
    => authCall.result = TRUE

\* C6: for a caller with a membership row who is neither global admin nor the
\* group's creator, read and write are granted, delete and manage are granted
\* exactly to group role admin or moderator, any other action is refused; a
\* non-admin caller without a membership row is refused every action
C6_MemberPolicy ==
  (authCall # Absent /\ ~authCall.lookupFails /\ userRole[authCall.userId] # "admin") =>
    LET u == authCall.userId
        g == authCall.groupId
        a == authCall.action
    IN IF members[g][u] = NoRow THEN authCall.result = FALSE
       ELSE createdBy[g] # u =>
         authCall.result =
           (\/ a \in {"read", "write"}
            \/ a \in {"delete", "manage"} /\ members[g][u] \in {"admin", "moderator"})

C6_Witness ==
  /\ authCall # Absent /\ ~authCall.lookupFails
  /\ userRole[authCall.userId] # "admin"
  /\ members[authCall.groupId][authCall.userId] = "moderator"
  /\ authCall.action = "delete"
  /\ authCall.result = TRUE

(* -------------------- SpecStore: the request handlers ------------------ *)
\* One action per awaited query of a handler: what runs between two awaits is
\* atomic, and other requests interleave at the awaits.  A finished request
\* keeps its response in its slot until the slot is released, which happens
\* before any other handler step.
MaxContent == 5000
ContentLens == {0, 1, MaxContent + 1}
MsgTypes == {"text", "file", "image", "form"}
TypeInputs == {"text", "video"}
TagInputs == {<<>>, <<"urgent">>}
GroupNames == {"General", "Field"}
RoleInputs == GroupRoles \cup {"owner"}
DefaultLimit == 50
LimitInputs == {Null, 0}
OffsetInputs == {0}

NoneDone == \A q \in ReqIds : reqs[q] = Idle \/ reqs[q].pc # "done"
\* a request arrives and takes the first free slot
FreeSlot(r) == /\ NoneDone
               /\ reqs[r] = Idle
               /\ \A q \in ReqIds : q < r => reqs[q] # Idle
               /\ opsLeft > 0
               /\ opsLeft' = opsLeft - 1
At(r, kind, pc) == /\ NoneDone /\ reqs[r].kind = kind /\ reqs[r].pc = pc
                   /\ UNCHANGED opsLeft
Request(kind, u, g) ==
  [kind |-> kind, pc |-> "start", user |-> u, group |-> g, msg |-> 0,
   code |-> 0, returned |-> {}, wrote |-> FALSE]
Respond(q, code) == [q EXCEPT !.pc = "done", !.code = code]

groupTables == <<createdBy, groupName, members, joinedAt>>
msgTables == <<msgs, tagRows, status, nextMsgId>>

\* res.json(...) has been sent: the request is over
Release(r) ==
  /\ reqs[r] # Idle /\ reqs[r].pc = "done"
  /\ reqs' = [reqs EXCEPT ![r] = Idle]
  /\ UNCHANGED <<userRole, groupTables, msgTables, clock, opsLeft, nonStore>>

(* ---- POST /api/groups ---- *)
CreateGroupCheck(r, u, name, valid) ==
  /\ FreeSlot(r)
  /\ LET q == [Request("createGroup", u, NoGroup) EXCEPT !.pc = "insertGroup"] IN
     reqs' = [reqs EXCEPT ![r] =
       IF userRole[u] # "admin" THEN Respond(q, 403)
       ELSE IF ~valid THEN Respond(q, 400)
       ELSE IF \E g \in GroupIds : GroupExists(g) /\ groupName[g] = name THEN Respond(q, 409)
       ELSE [kind |-> q.kind, pc |-> q.pc, user |-> u, group |-> NoGroup, msg |-> 0,
             code |-> 0, returned |-> {}, wrote |-> FALSE, name |-> name]]
  /\ UNCHANGED <<userRole, groupTables, msgTables, clock, nonStore>>

CreateGroupInsert(r) ==
  /\ At(r, "createGroup", "insertGroup")
  /\ \E g \in GroupIds :
       /\ createdBy[g] = NoGroup
       /\ \A h \in GroupIds : h < g => createdBy[h] # NoGroup
       /\ createdBy' = [createdBy EXCEPT ![g] = reqs[r].user]
       /\ groupName' = [groupName EXCEPT ![g] = reqs[r].name]
       /\ reqs' = [reqs EXCEPT ![r].pc = "insertMember", ![r].group = g]
  /\ UNCHANGED <<userRole, members, joinedAt, msgTables, clock, nonStore>>

CreateGroupMember(r) ==
  /\ At(r, "createGroup", "insertMember")
  /\ LET q == reqs[r] IN
     IF members[q.group][q.user] # NoRow
     THEN /\ reqs' = [reqs EXCEPT ![r] = Respond(q, 500)]
          /\ UNCHANGED <<members, joinedAt>>
     ELSE /\ members' = [members EXCEPT ![q.group][q.user] = "admin"]
          /\ joinedAt' = [joinedAt EXCEPT ![q.group][q.user] = clock]
          /\ reqs' = [reqs EXCEPT ![r] = Respond(q, 201)]
  /\ UNCHANGED <<userRole, createdBy, groupName, msgTables, clock, nonStore>>

(* ---- POST /api/groups/:groupId/members ---- *)
\* target 0 is a user id with no users row
AddMemberCheck(r, u, g, target, role) ==
  /\ FreeSlot(r)
  /\ LET q == Request("addMember", u, g) IN
     reqs' = [reqs EXCEPT ![r] =
       IF role \notin GroupRoles THEN Respond(q, 400)
       ELSE IF members[g][u] \notin {"admin", "moderator"} THEN Respond(q, 403)
       ELSE IF target \notin Users THEN Respond(q, 404)
       ELSE [kind |-> q.kind, pc |-> "existing", user |-> u, group |-> g, msg |-> 0,
             code |-> 0, returned |-> {}, wrote |-> FALSE, target |-> target, role |-> role]]
  /\ UNCHANGED <<userRole, groupTables, msgTables, clock, nonStore>>

AddMemberExisting(r) ==
  /\ At(r, "addMember", "existing")
  /\ LET q == reqs[r] IN
     reqs' = [reqs EXCEPT ![r] =
       IF members[q.group][q.target] # NoRow THEN Respond(q, 409)
       ELSE [q EXCEPT !.pc = "insert"]]
  /\ UNCHANGED <<userRole, groupTables, msgTables, clock, nonStore>>

AddMemberInsert(r) ==
  /\ At(r, "addMember", "insert")
  /\ LET q == reqs[r] IN
     IF members[q.group][q.target] # NoRow
     THEN /\ reqs' = [reqs EXCEPT ![r] = Respond(q, 500)]
          /\ UNCHANGED <<members, joinedAt>>
     ELSE /\ members' = [members EXCEPT ![q.group][q.target] = q.role]
          /\ joinedAt' = [joinedAt EXCEPT ![q.group][q.target] = clock]
          /\ reqs' = [reqs EXCEPT ![r] = Respond(q, 200)]
  /\ UNCHANGED <<userRole, createdBy, groupName, msgTables, clock, nonStore>>

(* ---- POST /api/messages ---- *)
GroupMembers(g) == {u \in Users : members[g][u] # NoRow}
GroupMsgs(g) == {m \in MsgIds : msgs[m] # Absent /\ msgs[m].group = g}

ValidMessage(contentLen, type) ==
  /\ contentLen >= 1 /\ contentLen <= MaxContent
  /\ type \in MsgTypes

\* the validators reject the body: 400 before any query
CreateMessageInvalid(r, u, g, contentLen, type) ==
  /\ FreeSlot(r)
  /\ ~ValidMessage(contentLen, type)
  /\ reqs' = [reqs EXCEPT ![r] = Respond(Request("createMessage", u, g), 400)]
  /\ UNCHANGED <<userRole, groupTables, msgTables, clock, nonStore>>

\* a valid body, then the write-access test; replyTo 0 is an absent replyTo
CreateMessageCheck(r, u, g, contentLen, type, replyTo, tags, lookupFails) ==
  /\ FreeSlot(r)
  /\ ValidMessage(contentLen, type)
  /\ LET q == Request("createMessage", u, g) IN
     reqs' = [reqs EXCEPT ![r] =
       IF ~CanAccessGroup(u, g, "write", lookupFails) THEN Respond(q, 403)
       ELSE [kind |-> q.kind, pc |-> IF replyTo # 0 THEN "reply" ELSE "insert",
             user |-> u, group |-> g, msg |-> 0, code |-> 0, returned |-> {},
             wrote |-> FALSE, contentLen |-> contentLen, type |-> type,
             replyTo |-> replyTo, tags |-> tags, tagIdx |-> 1]]
  /\ UNCHANGED <<userRole, groupTables, msgTables, clock, nonStore>>

CreateMessageReply(r) ==
  /\ At(r, "createMessage", "reply")
  /\ LET q == reqs[r] IN
     reqs' = [reqs EXCEPT ![r] =
       IF q.replyTo \in GroupMsgs(q.group) THEN [q EXCEPT !.pc = "insert"]
       ELSE Respond(q, 400)]
  /\ UNCHANGED <<userRole, groupTables, msgTables, clock, nonStore>>

CreateMessageInsert(r) ==
  /\ At(r, "createMessage", "insert")
  /\ nextMsgId \in MsgIds
  /\ LET q == reqs[r] IN
     /\ msgs' = [msgs EXCEPT ![nextMsgId] =
          [sender |-> q.user, group |-> q.group, contentLen |-> q.contentLen,
           type |-> q.type, reply_to |-> q.replyTo, created_at |-> clock,
           edited_at |-> Null]]
     /\ nextMsgId' = nextMsgId + 1
     /\ reqs' = [reqs EXCEPT ![r].msg = nextMsgId,
                             ![r].pc = IF q.tags = <<>> THEN "fanout" ELSE "tags"]
  /\ UNCHANGED <<userRole, groupTables, tagRows, status, clock, nonStore>>

CreateMessageTag(r) ==
  /\ At(r, "createMessage", "tags")
  /\ LET q == reqs[r] IN
     /\ tagRows' = Append(tagRows, [message_id |-> q.msg, tag_type |-> q.tags[q.tagIdx],
                                    tag_value |-> Null, created_by |-> q.user])
     /\ reqs' = [reqs EXCEPT ![r].tagIdx = q.tagIdx + 1,
                             ![r].pc = IF q.tagIdx = Len(q.tags) THEN "fanout" ELSE "tags"]
  /\ UNCHANGED <<userRole, groupTables, msgs, status, nextMsgId, clock, nonStore>>

\* fan-out with read_at pre-set on every row
FanOutRowsAllRead(m, sender, g) ==
  [u \in Users |->
     IF u \in GroupMembers(g)
     THEN [read_at |-> clock, delivered_at |-> clock]
     ELSE status[m][u]]

\* INSERT INTO message_status ... SELECT ... FROM group_members WHERE group_id = ?
FanOutRows(m, sender, g) ==
  [u \in Users |->
     IF u \in GroupMembers(g)
     THEN [read_at |-> IF u = sender THEN clock ELSE Null, delivered_at |-> clock]
     ELSE status[m][u]]

\* the statement aborts as a whole on UNIQUE(message_id, user_id)
CreateMessageFanOut(r) ==
  /\ At(r, "createMessage", "fanout")
  /\ LET q == reqs[r] IN
     IF \E u \in GroupMembers(q.group) : status[q.msg][u] # Absent
     THEN /\ reqs' = [reqs EXCEPT ![r] = Respond(q, 500)]
          /\ UNCHANGED status
     ELSE /\ status' = [status EXCEPT ![q.msg] = FanOutRows(q.msg, q.user, q.group)]
          /\ reqs' = [reqs EXCEPT ![r].pc = "fetch", ![r].wrote = TRUE]
  /\ UNCHANGED <<userRole, groupTables, msgs, tagRows, nextMsgId, clock, nonStore>>

\* read the stored row back and answer 201; a missing row makes the
\* formatting throw, which the catch block answers with 500
CreateMessageFetch(r) ==
  /\ At(r, "createMessage", "fetch")
  /\ LET q == reqs[r] IN
     reqs' = [reqs EXCEPT ![r] =
       IF msgs[q.msg] = Absent THEN Respond(q, 500)
       ELSE Respond([q EXCEPT !.returned = {[id |-> q.msg, group |-> q.group]}], 201)]
  /\ UNCHANGED <<userRole, groupTables, msgTables, clock, nonStore>>

(* ---- GET /api/messages/group/:groupId ---- *)
\* ORDER BY created_at DESC LIMIT ? OFFSET ?; created_at grows with the id
Page(g, limit, offset) ==
  {m \in GroupMsgs(g) :
     LET rank == Cardinality({n \in GroupMsgs(g) : n > m}) IN
     rank >= offset /\ rank < offset + limit}

\* requireGroupAccess('read'), then the handler's validation result
ListMessagesAccess(r, u, g, limit, offset, lookupFails) ==
  /\ FreeSlot(r)
  /\ LET q == Request("listMessages", u, g) IN
     reqs' = [reqs EXCEPT ![r] =
       IF ~CanAccessGroup(u, g, "read", lookupFails) THEN Respond(q, 403)
       ELSE IF limit # Null /\ (limit < 1 \/ limit > 100) THEN Respond(q, 400)
       ELSE [kind |-> q.kind, pc |-> "query", user |-> u, group |-> g, msg |-> 0,
             code |-> 0, returned |-> {}, wrote |-> FALSE,
             limit |-> IF limit = Null THEN DefaultLimit ELSE limit, offset |-> offset]]
  /\ UNCHANGED <<userRole, groupTables, msgTables, clock, nonStore>>

ListMessagesQuery(r) ==
  /\ At(r, "listMessages", "query")
  /\ LET q == reqs[r] IN
     reqs' = [reqs EXCEPT ![r].pc = "mark",
                ![r].returned = {[id |-> m, group |-> msgs[m].group] :
                                   m \in Page(q.group, q.limit, q.offset)}]
  /\ UNCHANGED <<userRole, groupTables, msgTables, clock, nonStore>>

\* INSERT OR REPLACE INTO message_status (message_id, user_id, read_at):
\* the row of every message of the group not sent by the reader is replaced,
\* delivered_at taking its column default
MarkGroupRead(u, g) ==
  [m \in MsgIds |->
     IF m \in GroupMsgs(g) /\ msgs[m].sender # u
     THEN [status[m] EXCEPT ![u] = [read_at |-> clock, delivered_at |-> clock]]
     ELSE status[m]]

ListMessagesMark(r) ==
  /\ At(r, "listMessages", "mark")
  /\ LET q == reqs[r] IN
     /\ status' = MarkGroupRead(q.user, q.group)
     /\ reqs' = [reqs EXCEPT ![r] = Respond([q EXCEPT !.wrote = (status' # status)], 200)]
  /\ UNCHANGED <<userRole, groupTables, msgs, tagRows, nextMsgId, clock, nonStore>>

(* ---- GET /api/messages/:messageId/status ---- *)
\* a lookup of the message alone, without the join on the caller's membership
MessageForAnyone(m, u) ==
  IF m \in MsgIds /\ msgs[m] # Absent THEN msgs[m] ELSE Absent

\* messages JOIN group_members ON group_id WHERE m.id = ? AND gm.user_id = ?
MessageForMember(m, u) ==
  IF m \in MsgIds /\ msgs[m] # Absent /\ members[msgs[m].group][u] # NoRow
  THEN msgs[m] ELSE Absent

GetStatusAccess(r, u, m) ==
  /\ FreeSlot(r)
  /\ LET q == [Request("getStatus", u, NoGroup) EXCEPT !.msg = m] IN
     reqs' = [reqs EXCEPT ![r] =
       IF MessageForMember(m, u) = Absent THEN Respond(q, 404)
       ELSE [q EXCEPT !.pc = "read", !.group = msgs[m].group]]
  /\ UNCHANGED <<userRole, groupTables, msgTables, clock, nonStore>>

GetStatusRead(r) ==
  /\ At(r, "getStatus", "read")
  /\ LET q == reqs[r] IN
     reqs' = [reqs EXCEPT ![r] =
       Respond([q EXCEPT !.returned = {[id |-> q.msg, group |-> q.group]}], 200)]
  /\ UNCHANGED <<userRole, groupTables, msgTables, clock, nonStore>>

\* the store some time after start-up: besides the default group, the
\* administrator has created group 2 and holds its admin row, and may have
\* added user 2 as a member
InitStore ==
  /\ userRole \in RoleTables
  /\ createdBy = [g \in GroupIds |-> IF g <= 2 THEN 1 ELSE NoGroup]
  /\ groupName = [g \in GroupIds |-> IF g = 1 THEN "General" ELSE IF g = 2 THEN "Field" ELSE ""]
  /\ members \in {f \in [GroupIds -> [Users -> {NoRow, "member", "admin"}]] :
        \A g \in GroupIds, u \in Users :
          /\ g # 2 => f[g][u] = NoRow
          /\ g = 2 /\ u = 1 => f[g][u] = "admin"
          /\ g = 2 /\ u = 2 => f[g][u] \in {NoRow, "member"}
          /\ g = 2 /\ u > 2 => f[g][u] = NoRow}
  /\ msgs = [m \in MsgIds |-> Absent]
  /\ tagRows = <<>>
  /\ joinedAt = JoinedAtStart
  /\ statusRows = EmptyBag
  /\ InitUI
  /\ status = [m \in MsgIds |-> [u \in Users |-> Absent]]
  /\ nextMsgId = 1
  /\ clock = 0
  /\ reqs = [r \in ReqIds |-> Idle]
  /\ opsLeft = MaxOps
  /\ authCall = Absent
  /\ InitRegistry
  /\ netOnline /\ ~windowApp   \* no browser takes part

\* a slot is free and the environment may still issue a request
CanArrive(r) == NoneDone /\ reqs[r] = Idle /\ opsLeft > 0
InFlight(r) == NoneDone /\ reqs[r] # Idle

NextStore ==
  \E r \in ReqIds :
    \/ Release(r)
    \/ /\ CanArrive(r)
       /\ \/ \E u \in Users, g \in GroupIds, target \in Users \cup {0}, role \in RoleInputs :
               AddMemberCheck(r, u, g, target, role)
          \/ \E u \in Users, g \in GroupIds, contentLen \in ContentLens, type \in TypeInputs :
               CreateMessageInvalid(r, u, g, contentLen, type)
          \/ \E u \in Users, g \in GroupIds, contentLen \in ContentLens, type \in TypeInputs,
                replyTo \in {0} \cup MsgIds, tags \in TagInputs, lookupFails \in BOOLEAN :
               CreateMessageCheck(r, u, g, contentLen, type, replyTo, tags, lookupFails)
          \/ \E u \in Users, g \in GroupIds, limit \in LimitInputs, offset \in OffsetInputs,
                lookupFails \in BOOLEAN :
               ListMessagesAccess(r, u, g, limit, offset, lookupFails)
          \/ \E u \in Users, m \in MsgIds : GetStatusAccess(r, u, m)
    \/ /\ InFlight(r)
       /\ \/ AddMemberExisting(r)
          \/ AddMemberInsert(r)
          \/ CreateMessageReply(r)
          \/ CreateMessageInsert(r)
          \/ CreateMessageTag(r)
          \/ CreateMessageFanOut(r)
          \/ CreateMessageFetch(r)
          \/ ListMessagesQuery(r)
          \/ ListMessagesMark(r)
          \/ GetStatusRead(r)

SpecStore == InitStore /\ [][NextStore]_vars

(* ------------------------- claims on SpecStore ------------------------- *)
HasRow(u, g) == g \in GroupIds /\ members[g][u] # NoRow

\* C1: the fan-out step of a create-message by sender S in group G leaves the
\* new message with exactly one message_status row per user who is a member
\* of G at that instant, and read_at is set on S's row and on no other
C1_FanOutRows ==
  [][\A r \in ReqIds :
       (reqs[r].kind = "createMessage" /\ reqs[r].pc = "fanout" /\ reqs'[r].pc = "fetch") =>
         LET m == reqs[r].msg
             g == reqs[r].group
             sender == reqs[r].user
         IN /\ {u \in Users : status'[m][u] # Absent} = {u \in Users : members'[g][u] # NoRow}
            /\ {u \in Users : status'[m][u] # Absent /\ status'[m][u].read_at # Null} = {sender}
    ]_vars

C1_Witness ==
  \E r \in ReqIds :
    /\ reqs[r].kind = "createMessage" /\ reqs[r].pc = "fetch"
    /\ Cardinality(GroupMembers(reqs[r].group)) >= 2
    /\ \A u \in GroupMembers(reqs[r].group) : status[reqs[r].msg][u] # Absent

\* C4: list-messages and get-message-status return no message of a group to
\* a caller who has no membership row for it and is not a global admin, and
\* a request refused to such a caller has changed no message_status row
C4_NoReadWithoutMembership ==
  \A r \in ReqIds :
    LET q == reqs[r] IN
    (q.kind \in {"listMessages", "getStatus"} /\ q.pc = "done") =>
      /\ \A x \in q.returned : HasRow(q.user, x.group) \/ userRole[q.user] = "admin"
      /\ LET g == IF q.kind = "listMessages" THEN q.group
                  ELSE IF q.msg \in MsgIds /\ msgs[q.msg] # Absent THEN msgs[q.msg].group
                  ELSE NoGroup
         IN (~HasRow(q.user, g) /\ userRole[q.user] # "admin") =>
              (q.code \in {403, 404} /\ q.returned = {} /\ ~q.wrote)

C4_Witness ==
  \E r \in ReqIds :
    LET q == reqs[r] IN
    /\ q.kind = "listMessages" /\ q.pc = "done" /\ q.code = 403
    /\ userRole[q.user] # "admin"
    /\ ~HasRow(q.user, q.group)
    /\ GroupMsgs(q.group) # {}

\* C40: when the membership lookup fails, canAccessGroup answers false for
\* every user and action, and create-message and list-messages end at once
\* with 403, nothing returned and no message, tag or status row changed
C40_LookupFailureRefuses ==
  [][/\ \A u \in Users, g \in GroupIds, a \in Actions \cup {OtherAction} :
          ~CanAccessGroup(u, g, a, TRUE)
     /\ \A r \in ReqIds :
          (/\ reqs[r] = Idle /\ reqs'[r] # Idle
           /\ reqs'[r].kind \in {"createMessage", "listMessages"}
           /\ LET u == reqs'[r].user
                  g == reqs'[r].group
              IN \/ \E contentLen \in ContentLens, type \in TypeInputs,
                       replyTo \in {0} \cup MsgIds, tags \in TagInputs :
                       CreateMessageCheck(r, u, g, contentLen, type, replyTo, tags, TRUE)
                 \/ \E limit \in LimitInputs, offset \in OffsetInputs :
                       ListMessagesAccess(r, u, g, limit, offset, TRUE))
          => /\ reqs'[r].pc = "done" /\ reqs'[r].code = 403
             /\ reqs'[r].returned = {} /\ ~reqs'[r].wrote
             /\ msgs' = msgs /\ tagRows' = tagRows /\ status' = status
    ]_vars

\* a global admin who is a member of the group, so that an answered lookup
\* would grant the access, has been refused by a guarded route
C40_Witness ==
  \E r \in ReqIds :
    /\ reqs[r] # Idle /\ reqs[r].pc = "done" /\ reqs[r].code = 403
    /\ reqs[r].kind \in {"createMessage", "listMessages"}
    /\ userRole[reqs[r].user] = "admin"
    /\ CanAccessGroup(reqs[r].user, reqs[r].group,
                      IF reqs[r].kind = "createMessage" THEN "write" ELSE "read", FALSE)

(* ---------------- SpecGroups: the group routes on a fresh store -------- *)
InitGroups == InitTables /\ authCall = Absent /\ InitRegistry

NextGroups ==
  \E r \in ReqIds :
    \/ Release(r)
    \/ \E u \in Users, name \in GroupNames, valid \in BOOLEAN : CreateGroupCheck(r, u, name, valid)
    \/ CreateGroupInsert(r)
    \/ CreateGroupMember(r)
    \/ \E u \in Users, g \in GroupIds, target \in Users \cup {0}, role \in RoleInputs :
         AddMemberCheck(r, u, g, target, role)
    \/ AddMemberExisting(r)
    \/ AddMemberInsert(r)

SpecGroups == InitGroups /\ [][NextGroups]_vars

\* add-member on a store that already holds group 2 and its members
NextManage ==
  \E r \in ReqIds :
    \/ Release(r)
    \/ \E u \in Users, g \in GroupIds, target \in Users \cup {0}, role \in RoleInputs :
         AddMemberCheck(r, u, g, target, role)
    \/ AddMemberExisting(r)
    \/ AddMemberInsert(r)

SpecManage == InitStore /\ [][NextManage]_vars

\* C38: an add-member request with a valid role is refused with 403 exactly
\* when canAccessGroup denies its caller the manage action on the group
C38_AddMemberFollowsAuthority ==
  [][\A r \in ReqIds, u \in Users, g \in GroupIds, target \in Users \cup {0},
        role \in GroupRoles :
       AddMemberCheck(r, u, g, target, role) =>
         ((reqs'[r].code = 403) <=> ~CanAccessGroup(u, g, "manage", FALSE))
    ]_vars

(* ------------------ SpecSocket: the socket event handlers -------------- *)
\* Every handler of server.js runs without an await, so each is one step.
Live(s) == socks[s].st = "live"
RoomOf(g) == {t \in SockIds : Live(t) /\ g \in rooms[t]}

\* io.to(room).emit(ev): every socket in the room, the sender included
ToRoomAll(s, g, ev) ==
  [t \in SockIds |-> IF t \in RoomOf(g) THEN Append(inbox[t], ev) ELSE inbox[t]]

\* socket.to(room).emit(ev): every socket in the room but the sender
ToRoom(s, g, ev) ==
  [t \in SockIds |-> IF t \in RoomOf(g) \ {s} THEN Append(inbox[t], ev) ELSE inbox[t]]
\* socket.emit(ev): the sender alone
ToSelf(box, s, ev) == [box EXCEPT ![s] = Append(box[s], ev)]
Room(s, g, withSelf) ==
  \A t \in (RoomOf(g) \ {s}) \cup (IF withSelf THEN {s} ELSE {}) : Len(inbox[t]) < MaxInbox

\* outcomes of the users lookup of authenticateSocket: a row with status
\* 'active', no such row, or a query that throws
Lookups == {"active", "inactive", "fails"}

\* a handshake that skips the users lookup: any verified token goes live
ConnectUnverified(s, tokenUser, lookup) ==
  /\ evLeft > 0 /\ evLeft' = evLeft - 1
  /\ socks[s].st = "new"
  /\ \A t \in SockIds : t < s => socks[t].st # "new"
  /\ tokenUser \notin Users => lookup = "active"
  /\ IF tokenUser \notin Users
     THEN /\ socks' = [socks EXCEPT ![s] = [st |-> "rejected", user |-> 0, cred |-> "token"]]
          /\ UNCHANGED activeUsers
     ELSE /\ socks' = [socks EXCEPT ![s] = [st |-> "live", user |-> tokenUser, cred |-> lookup]]
          /\ activeUsers' = [activeUsers EXCEPT ![tokenUser] = [socketId |-> s]]
  /\ UNCHANGED <<storeVars, authCall, clientVars, rooms, userRooms, evictTimers, inbox>>

\* io.use(authenticateSocket) and io.on('connection'); tokenUser 0 is a
\* missing, invalid or expired token, for which no lookup is made
Connect(s, tokenUser, lookup) ==
  /\ evLeft > 0 /\ evLeft' = evLeft - 1
  /\ socks[s].st = "new"
  /\ \A t \in SockIds : t < s => socks[t].st # "new"
  /\ tokenUser \notin Users => lookup = "active"
  /\ IF tokenUser \notin Users
     THEN /\ socks' = [socks EXCEPT ![s] = [st |-> "rejected", user |-> 0, cred |-> "token"]]
          /\ UNCHANGED activeUsers
     ELSE IF lookup # "active"
     THEN /\ socks' = [socks EXCEPT ![s] = [st |-> "rejected", user |-> 0, cred |-> lookup]]
          /\ UNCHANGED activeUsers
     ELSE /\ socks' = [socks EXCEPT ![s] = [st |-> "live", user |-> tokenUser, cred |-> lookup]]
          /\ activeUsers' = [activeUsers EXCEPT ![tokenUser] = [socketId |-> s]]
  /\ UNCHANGED <<storeVars, authCall, clientVars, rooms, userRooms, evictTimers, inbox>>

\* socket.on('join-groups'): the client names the groups
JoinGroups(s, groupIds) ==
  /\ evLeft > 0 /\ evLeft' = evLeft - 1
  /\ Live(s)
  /\ groupIds # {}
  /\ rooms' = [rooms EXCEPT ![s] = @ \cup groupIds]
  /\ userRooms' = [userRooms EXCEPT ![socks[s].user] =
       [groups |-> (IF @ = Absent THEN {} ELSE @.groups) \cup groupIds]]
  /\ UNCHANGED <<storeVars, authCall, clientVars, socks, activeUsers, evictTimers, inbox>>

\* socket.on('send-message'): the id is Date.now(), nothing is stored
SendMessage(s, g, contentLen) ==
  /\ evLeft > 0 /\ evLeft' = evLeft - 1
  /\ Live(s)
  /\ Room(s, g, TRUE)
  /\ LET message == [id |-> clock, senderId |-> socks[s].user, groupId |-> g,
                     contentLen |-> contentLen, type |-> "text"]
     IN inbox' = ToSelf(ToRoom(s, g, [kind |-> "new-message", message |-> message]),
                        s, [kind |-> "message-sent", message |-> message])
  /\ UNCHANGED <<storeVars, authCall, clientVars, socks, rooms, activeUsers, userRooms, evictTimers>>

\* send-message without a payload: the destructuring throws
SendMessageError(s) ==
  /\ evLeft > 0 /\ evLeft' = evLeft - 1
  /\ Live(s)
  /\ Room(s, NoGroup, TRUE)
  /\ inbox' = ToSelf(inbox, s, [kind |-> "message-error"])
  /\ UNCHANGED <<storeVars, authCall, clientVars, socks, rooms, activeUsers, userRooms, evictTimers>>

TypingStart(s, g) ==
  /\ evLeft > 0 /\ evLeft' = evLeft - 1
  /\ Live(s)
  /\ RoomOf(g) \ {s} # {}
  /\ Room(s, g, FALSE)
  /\ inbox' = ToRoom(s, g, [kind |-> "user-typing", userId |-> socks[s].user,
                            userName |-> socks[s].user, groupId |-> g])
  /\ UNCHANGED <<storeVars, authCall, clientVars, socks, rooms, activeUsers, userRooms, evictTimers>>

TypingStop(s, g) ==
  /\ evLeft > 0 /\ evLeft' = evLeft - 1
  /\ Live(s)
  /\ RoomOf(g) \ {s} # {}
  /\ Room(s, g, FALSE)
  /\ inbox' = ToRoom(s, g, [kind |-> "user-stop-typing", userId |-> socks[s].user, groupId |-> g])
  /\ UNCHANGED <<storeVars, authCall, clientVars, socks, rooms, activeUsers, userRooms, evictTimers>>

MarkRead(s, g, messageId) ==
  /\ evLeft > 0 /\ evLeft' = evLeft - 1
  /\ Live(s)
  /\ RoomOf(g) \ {s} # {}
  /\ Room(s, g, FALSE)
  /\ inbox' = ToRoom(s, g, [kind |-> "message-read", messageId |-> messageId,
                            userId |-> socks[s].user, groupId |-> g, readAt |-> clock])
  /\ UNCHANGED <<storeVars, authCall, clientVars, socks, rooms, activeUsers, userRooms, evictTimers>>

\* socket.on('disconnect'); socket.io has taken the socket out of its rooms
Disconnect(s) ==
  /\ evLeft > 0 /\ evLeft' = evLeft - 1
  /\ Live(s)
  /\ socks' = [socks EXCEPT ![s].st = "closed"]
  /\ rooms' = [rooms EXCEPT ![s] = {}]
  /\ userRooms' = [userRooms EXCEPT ![socks[s].user] = Absent]
  /\ evictTimers' = [evictTimers EXCEPT ![socks[s].user] = @ + 1]
  /\ UNCHANGED <<storeVars, authCall, clientVars, activeUsers, inbox>>

\* the 30 s timer of a disconnect fires
EvictTimer(u) ==
  /\ evictTimers[u] > 0
  /\ evictTimers' = [evictTimers EXCEPT ![u] = @ - 1]
  /\ activeUsers' = [activeUsers EXCEPT ![u] = Absent]
  /\ UNCHANGED <<storeVars, authCall, clientVars, socks, rooms, userRooms, inbox, evLeft>>

ClockTick ==
  /\ clock < MaxClock
  /\ clock' = clock + 1
  /\ UNCHANGED <<userRole, groupTables, msgTables, reqs, opsLeft, nonStore>>

InitSocket == InitStore

NextSocket ==
  \/ ClockTick
  \/ \E u \in Users : EvictTimer(u)
  \/ \E s \in SockIds :
       \/ \E tokenUser \in Users \cup {0}, lookup \in Lookups : Connect(s, tokenUser, lookup)
       \/ \E groupIds \in SUBSET GroupIds : JoinGroups(s, groupIds)
       \/ \E g \in GroupIds, contentLen \in ContentLens : SendMessage(s, g, contentLen)
       \/ SendMessageError(s)
       \/ \E g \in GroupIds : TypingStart(s, g)
       \/ \E g \in GroupIds : TypingStop(s, g)
       \/ \E g \in GroupIds, messageId \in Times : MarkRead(s, g, messageId)
       \/ Disconnect(s)

SpecSocket == InitSocket /\ [][NextSocket]_vars

\* C2: no live session is in the room of a group for which its user has no
\* membership row, unless the user is a global admin; hence it has received
\* none of that group's new-message, user-typing or message-read events
C2_RoomsNeedMembership ==
  \A s \in SockIds :
    Live(s) =>
      /\ \A g \in rooms[s] : HasRow(socks[s].user, g) \/ userRole[socks[s].user] = "admin"
      /\ \A i \in 1..Len(inbox[s]) :
           LET ev == inbox[s][i] IN
           /\ ev.kind = "new-message" =>
                (HasRow(socks[s].user, ev.message.groupId) \/ userRole[socks[s].user] = "admin")
           /\ ev.kind \in {"user-typing", "message-read"} =>
                (HasRow(socks[s].user, ev.groupId) \/ userRole[socks[s].user] = "admin")

\* C3: every message published by send-message (its message-sent echo or a
\* new-message copy) was sent by a user to whom canAccessGroup grants write
\* on the message's group, and so was every message row stored by
\* create-message
C3_PublishNeedsWriteAccess ==
  /\ \A s \in SockIds : \A i \in 1..Len(inbox[s]) :
       LET ev == inbox[s][i] IN
       ev.kind \in {"new-message", "message-sent"} =>
         CanAccessGroup(ev.message.senderId, ev.message.groupId, "write", FALSE)
  /\ \A m \in MsgIds :
       msgs[m] # Absent => CanAccessGroup(msgs[m].sender, msgs[m].group, "write", FALSE)

(* ===================== browser client: outbound queues =================== *)
(* public/js/offline.js (OfflineManager) and public/js/app.js                 *)
(* (HumanitarianApp).  IndexedDB requests are taken to succeed; every step    *)
(* below is one browser task: what runs between two awaits that yield to the  *)
(* event loop (a fetch, a timer, a DOM or socket event).                      *)

RetryCeiling == 3
ActionTypes == {"message", "createGroup", "uploadFile"}
TypeChoices == {"message", "createGroup", "ping"}

Bump(a, field) == [hist EXCEPT ![a][field] = @ + 1]

\* store.getAll(): the entries of syncQueue in key order
Snapshot == SelectSeq([k \in Keys |-> syncStore[k]], LAMBDA e : e # Absent)

\* processSyncQueue() up to the loop: both guards, then the snapshot
ProcessSyncQueue(online) ==
  IF db /\ online /\ Snapshot # <<>>
  THEN \E k \in ScanIds :
         /\ scans[k] = NoScan
         /\ \A j \in ScanIds : j < k => scans[j] # NoScan
         /\ scans' = [scans EXCEPT ![k] = [pc |-> "loop", snap |-> Snapshot, idx |-> 1]]
  ELSE UNCHANGED scans

\* the for loop moves to the next entry of its snapshot, or ends
Advance(k) ==
  IF scans[k].idx = Len(scans[k].snap)
  THEN [scans EXCEPT ![k] = NoScan]
  ELSE [scans EXCEPT ![k] = [@ EXCEPT !.pc = "loop", !.idx = @ + 1]]

Current(k) == scans[k].snap[scans[k].idx]

\* indexedDB.open succeeds: db is set and the network listeners are installed
InitDB ==
  /\ ~db
  /\ db' = TRUE
  /\ UNCHANGED <<omOnline, netOnline, syncStore, nextKey, memQueue, scanTimers, scans,
                 appVars, nextAid, hist>>
  /\ UNCHANGED <<storeVars, authCall, sockVars>>

\* window 'online' event
GoOnline ==
  /\ ~netOnline
  /\ netOnline' = TRUE
  /\ IF db
     THEN /\ omOnline' = TRUE
          /\ appOnline' = IF windowApp THEN TRUE ELSE appOnline
          /\ ProcessSyncQueue(TRUE)
     ELSE UNCHANGED <<omOnline, appOnline, scans>>
  /\ UNCHANGED <<db, syncStore, nextKey, memQueue, scanTimers, windowApp, appSocket,
                 offlineQueue, nextAid, hist>>
  /\ UNCHANGED <<storeVars, authCall, sockVars>>

\* window 'offline' event
GoOffline ==
  /\ netOnline
  /\ netOnline' = FALSE
  /\ IF db
     THEN /\ omOnline' = FALSE
          /\ appOnline' = IF windowApp THEN FALSE ELSE appOnline
     ELSE UNCHANGED <<omOnline, appOnline>>
  /\ UNCHANGED <<db, syncStore, nextKey, memQueue, scanTimers, scans, windowApp, appSocket,
                 offlineQueue, nextAid, hist>>
  /\ UNCHANGED <<storeVars, authCall, sockVars>>

\* OfflineManager.queueAction(action)
QueueAction(type) ==
  /\ nextAid <= MaxActions
  /\ nextAid' = nextAid + 1
  /\ IF ~db
     THEN /\ memQueue' = Append(memQueue, [type |-> type, aid |-> nextAid])
          /\ hist' = [hist EXCEPT ![nextAid].type = type]
          /\ UNCHANGED <<syncStore, nextKey, scanTimers>>
     ELSE /\ syncStore' = [syncStore EXCEPT ![nextKey] =
                             [id |-> nextKey, type |-> type, aid |-> nextAid, attempts |-> 0]]
          /\ nextKey' = nextKey + 1
          /\ scanTimers' = IF omOnline THEN scanTimers + 1 ELSE scanTimers
          /\ hist' = [hist EXCEPT ![nextAid] = [@ EXCEPT !.type = type, !.durable = TRUE]]
          /\ UNCHANGED memQueue
  /\ UNCHANGED <<db, omOnline, netOnline, scans, appVars>>
  /\ UNCHANGED <<storeVars, authCall, sockVars>>

\* the 100 ms timer of queueAction fires and calls processSyncQueue()
ScanTimer ==
  /\ scanTimers > 0
  /\ scanTimers' = scanTimers - 1
  /\ ProcessSyncQueue(omOnline)
  /\ UNCHANGED <<db, omOnline, netOnline, syncStore, nextKey, memQueue, appVars, nextAid, hist>>
  /\ UNCHANGED <<storeVars, authCall, sockVars>>

\* loop body, syncMessage over the socket: emit, then store.delete at once
ScanEmit(k) ==
  /\ scans[k].pc = "loop"
  /\ Current(k).type = "message"
  /\ windowApp /\ appSocket # "none"
  /\ hist[Current(k).aid].sends < MaxSends
  /\ hist' = [hist EXCEPT ![Current(k).aid] =
                [@ EXCEPT !.sends = @ + 1, !.emitted = @ + 1]]
  /\ syncStore' = [syncStore EXCEPT ![Current(k).id] = Absent]
  /\ scans' = Advance(k)
  /\ UNCHANGED <<db, omOnline, netOnline, nextKey, memQueue, scanTimers, appVars, nextAid>>
  /\ UNCHANGED <<storeVars, authCall, sockVars>>

\* loop body, a sync function that awaits fetch: the request goes out
ScanFetch(k) ==
  /\ scans[k].pc = "loop"
  /\ Current(k).type \in ActionTypes
  /\ Current(k).type = "message" => ~(windowApp /\ appSocket # "none")
  /\ hist[Current(k).aid].sends < MaxSends
  /\ hist' = Bump(Current(k).aid, "sends")
  /\ scans' = [scans EXCEPT ![k].pc = "fetch"]
  /\ UNCHANGED <<db, omOnline, netOnline, syncStore, nextKey, memQueue, scanTimers, appVars,
                 nextAid>>
  /\ UNCHANGED <<storeVars, authCall, sockVars>>

\* loop body, default branch of processAction: a warning, then store.delete
ScanUnknown(k) ==
  /\ scans[k].pc = "loop"
  /\ Current(k).type \notin ActionTypes
  /\ syncStore' = [syncStore EXCEPT ![Current(k).id] = Absent]
  /\ scans' = Advance(k)
  /\ UNCHANGED <<db, omOnline, netOnline, nextKey, memQueue, scanTimers, appVars, nextAid, hist>>
  /\ UNCHANGED <<storeVars, authCall, sockVars>>

\* a success branch that deletes by position in the snapshot, not by id
ScanFetchDonePositional(k, ok) ==
  /\ scans[k].pc = "fetch"
  /\ ok => netOnline
  /\ LET e == Current(k)
         attempts == e.attempts + 1
     IN IF ok
        THEN /\ syncStore' = [syncStore EXCEPT ![scans[k].idx] = Absent]
             /\ hist' = [hist EXCEPT ![e.aid] =
                           [@ EXCEPT !.confirmed = TRUE,
                                     !.rows = IF e.type = "message" THEN @ + 1 ELSE @]]
        ELSE IF attempts < RetryCeiling
        THEN /\ syncStore' = [syncStore EXCEPT ![e.id] = [e EXCEPT !.attempts = attempts]]
             /\ hist' = Bump(e.aid, "fails")
        ELSE /\ syncStore' = [syncStore EXCEPT ![e.id] = Absent]
             /\ hist' = [hist EXCEPT ![e.aid] =
                           [@ EXCEPT !.fails = @ + 1, !.reports = @ + 1]]
  /\ scans' = Advance(k)
  /\ UNCHANGED <<db, omOnline, netOnline, nextKey, memQueue, scanTimers, appVars, nextAid>>
  /\ UNCHANGED <<storeVars, authCall, sockVars>>

\* the fetch settles: response.ok deletes the entry; otherwise the catch
\* branch counts the attempt on the snapshot's copy and puts it back, or at
\* the ceiling deletes it and logs the terminal failure
ScanFetchDone(k, ok) ==
  /\ scans[k].pc = "fetch"
  /\ ok => netOnline
  /\ LET e == Current(k)
         attempts == e.attempts + 1
     IN IF ok
        THEN /\ syncStore' = [syncStore EXCEPT ![e.id] = Absent]
             /\ hist' = [hist EXCEPT ![e.aid] =
                           [@ EXCEPT !.confirmed = TRUE,
                                     !.rows = IF e.type = "message" THEN @ + 1 ELSE @]]
        ELSE IF attempts < RetryCeiling
        THEN /\ syncStore' = [syncStore EXCEPT ![e.id] = [e EXCEPT !.attempts = attempts]]
             /\ hist' = Bump(e.aid, "fails")
        ELSE /\ syncStore' = [syncStore EXCEPT ![e.id] = Absent]
             /\ hist' = [hist EXCEPT ![e.aid] =
                           [@ EXCEPT !.fails = @ + 1, !.reports = @ + 1]]
  /\ scans' = Advance(k)
  /\ UNCHANGED <<db, omOnline, netOnline, nextKey, memQueue, scanTimers, appVars, nextAid>>
  /\ UNCHANGED <<storeVars, authCall, sockVars>>

\* HumanitarianApp.connectSocket(): this.socket = io(...)
ConnectSocket ==
  /\ appSocket = "none"
  /\ appSocket' = "disconnected"
  /\ UNCHANGED <<omVars, windowApp, appOnline, offlineQueue, nextAid, hist>>
  /\ UNCHANGED <<storeVars, authCall, sockVars>>

\* socket 'connect': updateConnectionStatus(true), then processOfflineQueue(),
\* which empties offlineQueue
OnConnect ==
  /\ appSocket = "disconnected"
  /\ netOnline
  /\ appSocket' = "connected"
  /\ appOnline' = TRUE
  /\ offlineQueue' = <<>>
  /\ UNCHANGED <<omVars, windowApp, nextAid, hist>>
  /\ UNCHANGED <<storeVars, authCall, sockVars>>

\* socket 'disconnect': updateConnectionStatus(false)
OnDisconnect ==
  /\ appSocket = "connected"
  /\ appSocket' = "disconnected"
  /\ appOnline' = FALSE
  /\ UNCHANGED <<omVars, windowApp, offlineQueue, nextAid, hist>>
  /\ UNCHANGED <<storeVars, authCall, sockVars>>

\* HumanitarianApp sendMessage() with content and a current group
AppSendMessage ==
  /\ nextAid <= MaxActions
  /\ nextAid' = nextAid + 1
  /\ IF appOnline /\ appSocket # "none"
     THEN /\ hist' = [hist EXCEPT ![nextAid] =
                        [@ EXCEPT !.sends = 1, !.emitted = 1, !.direct = TRUE,
                                  !.type = "message"]]
          /\ UNCHANGED offlineQueue
     ELSE /\ offlineQueue' = Append(offlineQueue, [type |-> "message", aid |-> nextAid])
          /\ hist' = [hist EXCEPT ![nextAid].type = "message"]
  /\ UNCHANGED <<omVars, windowApp, appSocket, appOnline>>
  /\ UNCHANGED <<storeVars, authCall, sockVars>>

\* socket 'message-sent': the server's echo of an emitted send-message
OnMessageSent(a) ==
  /\ appSocket = "connected"
  /\ hist[a].emitted > 0
  /\ ~hist[a].confirmed
  /\ hist' = [hist EXCEPT ![a].confirmed = TRUE]
  /\ UNCHANGED <<omVars, appVars, nextAid>>
  /\ UNCHANGED <<storeVars, authCall, sockVars>>

NextClient ==
  \/ InitDB
  \/ GoOnline
  \/ GoOffline
  \/ \E type \in TypeChoices : QueueAction(type)
  \/ ScanTimer
  \/ \E k \in ScanIds :
       \/ ScanEmit(k)
       \/ ScanFetch(k)
       \/ ScanUnknown(k)
       \/ \E ok \in BOOLEAN : ScanFetchDone(k, ok)
  \/ ConnectSocket
  \/ OnConnect
  \/ OnDisconnect
  \/ AppSendMessage
  \/ \E a \in Aids : OnMessageSent(a)

SpecClient == InitGroups /\ [][NextClient]_vars

InStore(a) == \E k \in Keys : syncStore[k] # Absent /\ syncStore[k].aid = a
InMemQueue(a) == \E i \in 1..Len(memQueue) : memQueue[i].aid = a
InOfflineQueue(a) == \E i \in 1..Len(offlineQueue) : offlineQueue[i].aid = a
Pending(a) == InStore(a) \/ InMemQueue(a) \/ InOfflineQueue(a)
Created(a) == a < nextAid

\* C7: no action is ever transmitted more than three times
C7_AtMostThreeSends ==
  \A a \in Aids : hist[a].sends <= RetryCeiling

\* C8: an action is reported as a terminal failure at most once, and an action
\* that has failed three times and is gone from the queue has been reported
C8_ReportedExactlyOnce ==
  \A a \in Aids :
    /\ hist[a].reports <= 1
    /\ (hist[a].fails >= RetryCeiling /\ ~Pending(a)) => hist[a].reports = 1

\* C9: an action that was queued and is in none of the three pending queues
\* any more has a confirmed send or a reported terminal failure
C9_NoSilentDrop ==
  \A a \in Aids :
    (Created(a) /\ ~hist[a].direct /\ ~Pending(a)) =>
      (hist[a].confirmed \/ hist[a].reports >= 1)

\* C10: a send-message action that has been transmitted and is not yet
\* confirmed is present in the durable syncQueue store
C10_DurableWhileUnconfirmed ==
  \A a \in Aids :
    (hist[a].sends > 0 /\ ~hist[a].confirmed /\ hist[a].reports = 0) => InStore(a)

(* ------------- SpecMessages: the message routes with a clock ----------- *)
ValidTags == {"urgent", "follow-up", "financial", "logistics", "medical", "security"}
EditLens == {0, 2, MaxContent + 1}
AddTagInputs == {<<>>, <<"urgent">>, <<"gossip">>}
NewTagInputs == {<<>>, <<"urgent">>, <<"gossip">>}

(* ---- PUT /api/messages/:messageId ---- *)
\* the validator rejects the body: 400 before any query
EditMessageInvalid(r, u, m, contentLen) ==
  /\ FreeSlot(r)
  /\ ~(contentLen >= 1 /\ contentLen <= MaxContent)
  /\ reqs' = [reqs EXCEPT ![r] = Respond([Request("editMessage", u, NoGroup) EXCEPT !.msg = m], 400)]
  /\ UNCHANGED <<userRole, groupTables, msgTables, clock, nonStore>>

\* messages JOIN group_members for the caller, then the canEdit test
EditMessageCheck(r, u, m, contentLen) ==
  /\ FreeSlot(r)
  /\ contentLen >= 1 /\ contentLen <= MaxContent
  /\ LET q == [Request("editMessage", u, NoGroup) EXCEPT !.msg = m]
         message == MessageForMember(m, u)
     IN reqs' = [reqs EXCEPT ![r] =
          IF message = Absent THEN Respond(q, 404)
          ELSE IF ~(\/ message.sender = u
                    \/ userRole[u] = "admin"
                    \/ members[message.group][u] = "admin")
          THEN Respond([q EXCEPT !.group = message.group], 403)
          ELSE [kind |-> q.kind, pc |-> "update", user |-> u, group |-> message.group,
                msg |-> m, code |-> 0, returned |-> {}, wrote |-> FALSE,
                contentLen |-> contentLen]]
  /\ UNCHANGED <<userRole, groupTables, msgTables, clock, nonStore>>

\* UPDATE messages SET content = ?, edited_at = CURRENT_TIMESTAMP WHERE id = ?
EditMessageUpdate(r) ==
  /\ At(r, "editMessage", "update")
  /\ LET q == reqs[r] IN
     /\ msgs' = IF msgs[q.msg] = Absent THEN msgs
                ELSE [msgs EXCEPT ![q.msg] =
                        [@ EXCEPT !.contentLen = q.contentLen, !.edited_at = clock]]
     /\ reqs' = [reqs EXCEPT ![r] = Respond([q EXCEPT !.wrote = TRUE], 200)]
  /\ UNCHANGED <<userRole, groupTables, tagRows, status, nextMsgId, clock, nonStore>>

(* ---- POST /api/messages/:messageId/tags ---- *)
\* tags must be an array of at least one string
AddTagsInvalid(r, u, m, tags) ==
  /\ FreeSlot(r)
  /\ tags = <<>>
  /\ reqs' = [reqs EXCEPT ![r] = Respond([Request("addTags", u, NoGroup) EXCEPT !.msg = m], 400)]
  /\ UNCHANGED <<userRole, groupTables, msgTables, clock, nonStore>>

AddTagsCheck(r, u, m, tags) ==
  /\ FreeSlot(r)
  /\ tags # <<>>
  /\ LET q == [Request("addTags", u, NoGroup) EXCEPT !.msg = m] IN
     reqs' = [reqs EXCEPT ![r] =
       IF MessageForMember(m, u) = Absent THEN Respond(q, 404)
       ELSE [kind |-> q.kind, pc |-> "tags", user |-> u, group |-> msgs[m].group,
             msg |-> m, code |-> 0, returned |-> {}, wrote |-> FALSE,
             tags |-> tags, tagIdx |-> 1]]
  /\ UNCHANGED <<userRole, groupTables, msgTables, clock, nonStore>>

\* one turn of the loop: a kind outside validTags is skipped; INSERT OR IGNORE
\* on message_tags, which has no UNIQUE constraint to ignore on
AddTagsInsert(r) ==
  /\ At(r, "addTags", "tags")
  /\ LET q == reqs[r]
         tag == q.tags[q.tagIdx]
     IN /\ tagRows' = IF tag \in ValidTags
                      THEN Append(tagRows, [message_id |-> q.msg, tag_type |-> tag,
                                            tag_value |-> Null, created_by |-> q.user])
                      ELSE tagRows
        /\ reqs' = [reqs EXCEPT ![r] =
             IF q.tagIdx = Len(q.tags)
             THEN Respond([q EXCEPT !.wrote = (tagRows' # tagRows)], 200)
             ELSE [q EXCEPT !.tagIdx = q.tagIdx + 1]]
  /\ UNCHANGED <<userRole, groupTables, msgs, status, nextMsgId, clock, nonStore>>

(* ---- DELETE /api/messages/:messageId ---- *)
\* messages JOIN group_members for the caller, then the canDelete test
DeleteMessageCheck(r, u, m) ==
  /\ FreeSlot(r)
  /\ LET q == [Request("deleteMessage", u, NoGroup) EXCEPT !.msg = m]
         message == MessageForMember(m, u)
     IN reqs' = [reqs EXCEPT ![r] =
          IF message = Absent THEN Respond(q, 404)
          ELSE IF ~(message.sender = u \/ userRole[u] = "admin")
          THEN Respond([q EXCEPT !.group = message.group], 403)
          ELSE [q EXCEPT !.pc = "delTags", !.group = message.group]]
  /\ UNCHANGED <<userRole, groupTables, msgTables, clock, nonStore>>

\* DELETE FROM message_tags WHERE message_id = ?
DeleteMessageTags(r) ==
  /\ At(r, "deleteMessage", "delTags")
  /\ tagRows' = SelectSeq(tagRows, LAMBDA row : row.message_id # reqs[r].msg)
  /\ reqs' = [reqs EXCEPT ![r].pc = "delStatus"]
  /\ UNCHANGED <<userRole, groupTables, msgs, status, nextMsgId, clock, nonStore>>

\* DELETE FROM message_status WHERE message_id = ?
DeleteMessageStatus(r) ==
  /\ At(r, "deleteMessage", "delStatus")
  /\ status' = [status EXCEPT ![reqs[r].msg] = [u \in Users |-> Absent]]
  /\ reqs' = [reqs EXCEPT ![r].pc = "delMessage"]
  /\ UNCHANGED <<userRole, groupTables, msgs, tagRows, nextMsgId, clock, nonStore>>

\* DELETE FROM messages WHERE id = ?
DeleteMessageRow(r) ==
  /\ At(r, "deleteMessage", "delMessage")
  /\ msgs' = [msgs EXCEPT ![reqs[r].msg] = Absent]
  /\ reqs' = [reqs EXCEPT ![r] = Respond([reqs[r] EXCEPT !.wrote = TRUE], 200)]
  /\ UNCHANGED <<userRole, groupTables, tagRows, status, nextMsgId, clock, nonStore>>

\* the store of InitStore after user 1 has posted message 1 in group 2
InitMessages ==
  /\ userRole \in RoleTables
  /\ createdBy = [g \in GroupIds |-> IF g <= 2 THEN 1 ELSE NoGroup]
  /\ groupName = [g \in GroupIds |-> IF g = 1 THEN "General" ELSE IF g = 2 THEN "Field" ELSE ""]
  /\ members \in {f \in [GroupIds -> [Users -> {NoRow, "member", "admin"}]] :
        \A g \in GroupIds, u \in Users :
          /\ g # 2 => f[g][u] = NoRow
          /\ g = 2 /\ u = 1 => f[g][u] = "admin"
          /\ g = 2 /\ u = 2 => f[g][u] \in {NoRow, "member"}
          /\ g = 2 /\ u > 2 => f[g][u] = NoRow}
  /\ msgs = [m \in MsgIds |->
               IF m = 1 THEN [sender |-> 1, group |-> 2, contentLen |-> 1, type |-> "text",
                              reply_to |-> 0, created_at |-> 0, edited_at |-> Null]
               ELSE Absent]
  /\ tagRows = <<>>
  /\ joinedAt = JoinedAtStart
  /\ statusRows = EmptyBag
  /\ InitUI
  /\ status = [m \in MsgIds |-> [u \in Users |->
                 IF m = 1 /\ members[2][u] # NoRow
                 THEN [read_at |-> IF u = 1 THEN 0 ELSE Null, delivered_at |-> 0]
                 ELSE Absent]]
  /\ nextMsgId = 2
  /\ clock = 0
  /\ reqs = [r \in ReqIds |-> Idle]
  /\ opsLeft = MaxOps
  /\ authCall = Absent
  /\ InitRegistry
  /\ netOnline /\ ~windowApp   \* no browser takes part

NextMessages ==
  \/ ClockTick
  \/ \E r \in ReqIds :
       \/ Release(r)
       \/ /\ CanArrive(r)
          /\ \/ \E u \in Users, g \in GroupIds, contentLen \in ContentLens, type \in TypeInputs :
                  CreateMessageInvalid(r, u, g, contentLen, type)
             \/ \E u \in Users, g \in GroupIds, replyTo \in {0} \cup MsgIds, tags \in NewTagInputs :
                  CreateMessageCheck(r, u, g, 1, "text", replyTo, tags, FALSE)
             \/ \E u \in Users, g \in GroupIds : ListMessagesAccess(r, u, g, Null, 0, FALSE)
             \/ \E u \in Users, m \in MsgIds, contentLen \in EditLens :
                  \/ EditMessageInvalid(r, u, m, contentLen)
                  \/ EditMessageCheck(r, u, m, contentLen)
             \/ \E u \in Users, m \in MsgIds, tags \in AddTagInputs :
                  \/ AddTagsInvalid(r, u, m, tags)
                  \/ AddTagsCheck(r, u, m, tags)
             \/ \E u \in Users, m \in MsgIds : DeleteMessageCheck(r, u, m)
             \/ \E target \in Users : AddMemberCheck(r, 1, 2, target, "member")
       \/ /\ InFlight(r)
          /\ \/ CreateMessageReply(r)
             \/ CreateMessageInsert(r)
             \/ CreateMessageTag(r)
             \/ CreateMessageFanOut(r)
             \/ CreateMessageFetch(r)
             \/ ListMessagesQuery(r)
             \/ ListMessagesMark(r)
             \/ EditMessageUpdate(r)
             \/ AddTagsInsert(r)
             \/ DeleteMessageTags(r)
             \/ DeleteMessageStatus(r)
             \/ DeleteMessageRow(r)
             \/ AddMemberExisting(r)
             \/ AddMemberInsert(r)

SpecMessages == InitMessages /\ [][NextMessages]_vars

(* ------- SpecLookup: the four routes that look a message up by id ------ *)
NextLookup ==
  \E r \in ReqIds :
    \/ Release(r)
    \/ /\ CanArrive(r)
       /\ \/ \E u \in Users, m \in MsgIds, contentLen \in EditLens :
               \/ EditMessageInvalid(r, u, m, contentLen)
               \/ EditMessageCheck(r, u, m, contentLen)
          \/ \E u \in Users, m \in MsgIds, tags \in AddTagInputs :
               \/ AddTagsInvalid(r, u, m, tags)
               \/ AddTagsCheck(r, u, m, tags)
          \/ \E u \in Users, m \in MsgIds : DeleteMessageCheck(r, u, m)
          \/ \E u \in Users, m \in MsgIds : GetStatusAccess(r, u, m)
    \/ /\ InFlight(r)
       /\ \/ EditMessageUpdate(r)
          \/ AddTagsInsert(r)
          \/ DeleteMessageTags(r)
          \/ DeleteMessageStatus(r)
          \/ DeleteMessageRow(r)
          \/ GetStatusRead(r)

SpecLookup == InitMessages /\ [][NextLookup]_vars

\* C39: when the message is missing, or exists in a group where the caller
\* has no membership row, each of the four routes answers with a response
\* fixed by the request alone: 400 for a body the validator rejects, else
\* 404, with nothing returned and nothing written
C39_ExistenceHidden ==
  [][\A r \in ReqIds, u \in Users, m \in MsgIds :
       (/\ reqs[r] = Idle /\ reqs'[r] # Idle
        /\ reqs'[r].user = u /\ reqs'[r].msg = m
        /\ (msgs[m] = Absent \/ members[msgs[m].group][u] = NoRow)) =>
         /\ \A contentLen \in EditLens :
              (EditMessageInvalid(r, u, m, contentLen) \/ EditMessageCheck(r, u, m, contentLen)) =>
                <<reqs'[r].pc, reqs'[r].code, reqs'[r].returned, reqs'[r].wrote>> =
                  <<"done", IF contentLen >= 1 /\ contentLen <= MaxContent THEN 404 ELSE 400,
                    {}, FALSE>>
         /\ \A tags \in AddTagInputs :
              (AddTagsInvalid(r, u, m, tags) \/ AddTagsCheck(r, u, m, tags)) =>
                <<reqs'[r].pc, reqs'[r].code, reqs'[r].returned, reqs'[r].wrote>> =
                  <<"done", IF tags # <<>> THEN 404 ELSE 400, {}, FALSE>>
         /\ (DeleteMessageCheck(r, u, m) \/ GetStatusAccess(r, u, m)) =>
              <<reqs'[r].pc, reqs'[r].code, reqs'[r].returned, reqs'[r].wrote>> =
                <<"done", 404, {}, FALSE>>
    ]_vars

\* a caller without a membership row in the group of a stored message has
\* asked for that message and has got 404
C39_Witness ==
  \E r \in ReqIds :
    /\ reqs[r] # Idle /\ reqs[r].pc = "done" /\ reqs[r].code = 404
    /\ reqs[r].kind \in {"editMessage", "deleteMessage", "addTags", "getStatus"}
    /\ msgs[reqs[r].msg] # Absent
    /\ members[msgs[reqs[r].msg].group][reqs[r].user] = NoRow

\* C14: once the message_status row of (message, user) has read_at set, no
\* later step changes that read_at
C14_ReadAtStable ==
  [][\A m \in MsgIds, u \in Users :
       (status[m][u] # Absent /\ status[m][u].read_at # Null /\ status'[m][u] # Absent) =>
         status'[m][u].read_at = status[m][u].read_at
    ]_vars

\* C33: a step that keeps the message_status row of (message, user) leaves
\* its delivered_at at the value the row had before
C33_DeliveredAtKept ==
  [][\A m \in MsgIds, u \in Users :
       (status[m][u] # Absent /\ status'[m][u] # Absent) =>
         status'[m][u].delivered_at = status[m][u].delivered_at
    ]_vars

C19_TagKindsValid ==
  \A i \in 1..Len(tagRows) : tagRows[i].tag_type \in ValidTags

\* C20: no message has two tag rows of the same kind
C20_OneRowPerKind ==
  \A i, j \in 1..Len(tagRows) :
    (tagRows[i].message_id = tagRows[j].message_id /\ tagRows[i].tag_type = tagRows[j].tag_type)
      => i = j

(* ---------------- SpecRoom: the socket handlers on a joined room -------- *)
\* the registry after user 2 and user 3 have connected and user 3's session
\* has joined the room of group 1
InitRoom ==
  /\ userRole \in RoleTables
  /\ createdBy = [g \in GroupIds |-> IF g <= 2 THEN 1 ELSE NoGroup]
  /\ groupName = [g \in GroupIds |-> IF g = 1 THEN "General" ELSE IF g = 2 THEN "Field" ELSE ""]
  /\ members = [g \in GroupIds |-> [u \in Users |-> IF g = 2 /\ u = 1 THEN "admin" ELSE NoRow]]
  /\ msgs = [m \in MsgIds |-> Absent]
  /\ tagRows = <<>>
  /\ joinedAt = JoinedAtStart
  /\ statusRows = EmptyBag
  /\ InitUI
  /\ status = [m \in MsgIds |-> [u \in Users |-> Absent]]
  /\ nextMsgId = 1
  /\ clock = 0
  /\ reqs = [r \in ReqIds |-> Idle]
  /\ opsLeft = MaxOps
  /\ authCall = Absent
  /\ socks = [s \in SockIds |-> IF s = 1 THEN [st |-> "live", user |-> 2, cred |-> "active"]
                               ELSE IF s = 2 THEN [st |-> "live", user |-> 3, cred |-> "active"]
                               ELSE [st |-> "new", user |-> 0, cred |-> "none"]]
  /\ rooms = [s \in SockIds |-> IF s = 2 THEN {1} ELSE {}]
  /\ activeUsers = [u \in Users |-> IF u = 2 THEN [socketId |-> 1]
                                   ELSE IF u = 3 THEN [socketId |-> 2] ELSE Absent]
  /\ userRooms = [u \in Users |-> IF u = 3 THEN [groups |-> {1}] ELSE Absent]
  /\ evictTimers = [u \in Users |-> 0]
  /\ inbox = [s \in SockIds |-> <<>>]
  /\ evLeft = MaxEvents - 2
  /\ InitClient
  /\ netOnline /\ ~windowApp   \* no browser takes part

SpecRoom == InitRoom /\ [][NextSocket]_vars

\* C15: no session ever holds two message-read events for the same message
\* and reader: a repeated mark-read publishes nothing
C15_OneReadEvent ==
  \A s \in SockIds : \A i, j \in 1..Len(inbox[s]) :
    (/\ inbox[s][i].kind = "message-read" /\ inbox[s][j].kind = "message-read"
     /\ inbox[s][i].messageId = inbox[s][j].messageId
     /\ inbox[s][i].userId = inbox[s][j].userId) => i = j

\* C16: a step in which session s receives message-sent for a message to
\* group G delivers to s that one event only, and to every other session in
\* G's room exactly one new-message with the same message; no other session
\* receives anything
C16_SendDelivery ==
  [][\A s \in SockIds :
       (/\ Len(inbox'[s]) > Len(inbox[s])
        /\ inbox'[s][Len(inbox'[s])].kind = "message-sent") =>
         LET message == inbox'[s][Len(inbox'[s])].message IN
         /\ inbox'[s] = Append(inbox[s], [kind |-> "message-sent", message |-> message])
         /\ \A t \in SockIds \ {s} :
              inbox'[t] = IF Live(t) /\ message.groupId \in rooms[t]
                          THEN Append(inbox[t], [kind |-> "new-message", message |-> message])
                          ELSE inbox[t]
    ]_vars

C16_Witness ==
  \E s, t \in SockIds :
    /\ s # t
    /\ Len(inbox[s]) = 1 /\ inbox[s][1].kind = "message-sent"
    /\ Len(inbox[t]) = 1 /\ inbox[t][1].kind = "new-message"
    /\ inbox[t][1].message = inbox[s][1].message
    /\ inbox[s][1].message.groupId \in rooms[t]

\* C36: no two message-sent confirmations, which the handler emits once per
\* send-message event, carry the same message id
C36_DistinctIds ==
  \A s, t \in SockIds : \A i \in 1..Len(inbox[s]), j \in 1..Len(inbox[t]) :
    (<<s, i>> # <<t, j>> /\ inbox[s][i].kind = "message-sent" /\ inbox[t][j].kind = "message-sent")
      => inbox[s][i].message.id # inbox[t][j].message.id

\* C17: every new-message or message-sent event delivered carries a message
\* that has a stored message row of that sender and group with its
\* message_status rows
C17_PublishedAfterPersisted ==
  \A s \in SockIds : \A i \in 1..Len(inbox[s]) :
    LET ev == inbox[s][i] IN
    ev.kind \in {"new-message", "message-sent"} =>
      \E m \in MsgIds :
        /\ msgs[m] # Absent
        /\ msgs[m].sender = ev.message.senderId
        /\ msgs[m].group = ev.message.groupId
        /\ \A u \in GroupMembers(msgs[m].group) : status[m][u] # Absent

(* ---------------- SpecSearch: GET /api/messages/search ------------------ *)
SearchCap == 50
SearchDefault == 20
QueryLens == {0, 1}
SearchLimits == {Null, 1, SearchCap + 1}
NoTag == ""
TagFilters == {NoTag, "urgent"}
FromInputs == {Null, 1}

\* every group is searchable, member or not
SearchableGroupsAll(u) == {g \in GroupIds : GroupExists(g)}

\* SELECT gm.group_id FROM group_members gm WHERE gm.user_id = ?
SearchableGroups(u) == {g \in GroupIds : members[g][u] # NoRow}

\* the validators reject q or limit: 400 before any query
SearchInvalid(r, u, qLen, limit) ==
  /\ FreeSlot(r)
  /\ \/ ~(qLen >= 1 /\ qLen <= 100)
     \/ limit # Null /\ ~(limit >= 1 /\ limit <= SearchCap)
  /\ reqs' = [reqs EXCEPT ![r] = Respond(Request("search", u, NoGroup), 400)]
  /\ UNCHANGED <<userRole, groupTables, msgTables, clock, nonStore>>

\* the caller's groups; none gives an empty answer at once
SearchGroups(r, u, groupId, tag, from, limit) ==
  /\ FreeSlot(r)
  /\ limit = Null \/ (limit >= 1 /\ limit <= SearchCap)
  /\ LET q == Request("search", u, NoGroup) IN
     reqs' = [reqs EXCEPT ![r] =
       IF SearchableGroups(u) = {} THEN Respond(q, 200)
       ELSE [kind |-> q.kind, pc |-> "search", user |-> u, group |-> NoGroup, msg |-> 0,
             code |-> 0, returned |-> {}, wrote |-> FALSE,
             groupIds |-> SearchableGroups(u), groupId |-> groupId, tag |-> tag,
             from |-> from, limit |-> IF limit = Null THEN SearchDefault ELSE limit]]
  /\ UNCHANGED <<userRole, groupTables, msgTables, clock, nonStore>>

\* WHERE m.group_id IN (groupIds) AND m.content LIKE ? and the optional
\* filters; the groupId filter is applied only if it names one of groupIds;
\* hits are the messages whose content contains q
SearchMatches(q, hits) ==
  {m \in MsgIds :
     /\ msgs[m] # Absent
     /\ msgs[m].group \in q.groupIds
     /\ m \in hits
     /\ (q.groupId # Null /\ q.groupId \in q.groupIds) => msgs[m].group = q.groupId
     /\ q.tag # NoTag => \E i \in 1..Len(tagRows) :
                          tagRows[i].message_id = m /\ tagRows[i].tag_type = q.tag
     /\ q.from # Null => msgs[m].created_at >= q.from}

\* GROUP BY m.id ORDER BY m.created_at DESC LIMIT ?
SearchQuery(r, hits) ==
  /\ At(r, "search", "search")
  /\ LET q == reqs[r]
         found == SearchMatches(q, hits)
         top == {m \in found : Cardinality({n \in found : n > m}) < q.limit}
     IN reqs' = [reqs EXCEPT ![r] =
          Respond([q EXCEPT !.returned = {[id |-> m, group |-> msgs[m].group] : m \in top}], 200)]
  /\ UNCHANGED <<userRole, groupTables, msgTables, clock, nonStore>>

NextSearch ==
  \/ ClockTick
  \/ \E r \in ReqIds :
       \/ Release(r)
       \/ /\ CanArrive(r)
          /\ \/ \E u \in Users, qLen \in QueryLens, limit \in SearchLimits :
                  SearchInvalid(r, u, qLen, limit)
             \/ \E u \in Users, groupId \in GroupIds \cup {Null}, tag \in TagFilters,
                   from \in FromInputs, limit \in SearchLimits :
                  SearchGroups(r, u, groupId, tag, from, limit)
             \/ \E u \in Users, tags \in TagInputs :
                  CreateMessageCheck(r, u, 2, 1, "text", 0, tags, FALSE)
             \/ \E target \in Users : AddMemberCheck(r, 1, 2, target, "member")
       \/ /\ InFlight(r)
          /\ \/ \E hits \in SUBSET MsgIds : SearchQuery(r, hits)
             \/ CreateMessageInsert(r)
             \/ CreateMessageTag(r)
             \/ CreateMessageFanOut(r)
             \/ CreateMessageFetch(r)
             \/ AddMemberExisting(r)
             \/ AddMemberInsert(r)

SpecSearch == InitMessages /\ [][NextSearch]_vars

notBrowser == <<userRole, groupTables, msgTables, statusRows, clock, reqs, opsLeft, authCall,
                socks, rooms, activeUsers, userRooms, evictTimers, clientVars>>

\* socket.emit(ev) in the page: the event waits for the server's handler
Emit(s, ev) == [outbox EXCEPT ![s] = Append(@, ev)]

\* the event the server's handler of session s takes next
Emitted(s, kind) == Live(s) /\ outbox[s] # <<>> /\ Head(outbox[s]).kind = kind

\* the event the page's listener of session s takes next
Delivered(s, kind) == Live(s) /\ inbox[s] # <<>> /\ Head(inbox[s]).kind = kind

\* data.userName as the listener reads it
UserNameOf(ev) == IF "userName" \in DOMAIN ev THEN ev.userName ELSE Undefined

\* selectGroup(group), for a group of the page's list
SelectGroup(s, g) ==
  /\ evLeft > 0 /\ evLeft' = evLeft - 1
  /\ Live(s) /\ g \in rooms[s] /\ currentGroup[s] # g
  /\ currentGroup' = [currentGroup EXCEPT ![s] = g]
  /\ UNCHANGED <<notBrowser, inbox, isTyping, typingTimeout, typingUsers, messages, outbox>>

\* handleTyping(): an input event in the message box
HandleTyping(s) ==
  /\ evLeft > 0 /\ evLeft' = evLeft - 1
  /\ Live(s) /\ currentGroup[s] # NoGroup
  /\ isTyping' = [isTyping EXCEPT ![s] = TRUE]
  /\ outbox' = IF isTyping[s] THEN outbox
               ELSE Emit(s, [kind |-> "typing-start", groupId |-> currentGroup[s]])
  /\ typingTimeout' = [typingTimeout EXCEPT ![s] = TRUE]
  /\ UNCHANGED <<notBrowser, inbox, currentGroup, typingUsers, messages>>

\* the 3 s timer of handleTyping fires: typing-stop for the group current now
TypingTimeoutFires(s) ==
  /\ typingTimeout[s]
  /\ typingTimeout' = [typingTimeout EXCEPT ![s] = FALSE]
  /\ isTyping' = [isTyping EXCEPT ![s] = FALSE]
  /\ outbox' = Emit(s, [kind |-> "typing-stop", groupId |-> currentGroup[s]])
  /\ UNCHANGED <<notBrowser, inbox, evLeft, currentGroup, typingUsers, messages>>

\* sendMessage() with content, a current group and a connected socket
PageSendMessage(s) ==
  /\ evLeft > 0 /\ evLeft' = evLeft - 1
  /\ Live(s) /\ currentGroup[s] # NoGroup
  /\ outbox' = Emit(s, [kind |-> "send-message", groupId |-> currentGroup[s]])
  /\ UNCHANGED <<notBrowser, inbox, currentGroup, isTyping, typingTimeout, typingUsers, messages>>

\* socket.on('typing-start') for the event the page emitted
ServeTypingStart(s) ==
  /\ Emitted(s, "typing-start")
  /\ LET g == Head(outbox[s]).groupId IN
     /\ Room(s, g, FALSE)
     /\ inbox' = ToRoom(s, g, [kind |-> "user-typing", userId |-> socks[s].user,
                               userName |-> socks[s].user, groupId |-> g])
  /\ outbox' = [outbox EXCEPT ![s] = Tail(@)]
  /\ UNCHANGED <<notBrowser, evLeft, currentGroup, isTyping, typingTimeout, typingUsers, messages>>

\* socket.on('typing-stop') for the event the page emitted
ServeTypingStop(s) ==
  /\ Emitted(s, "typing-stop")
  /\ LET g == Head(outbox[s]).groupId IN
     /\ Room(s, g, FALSE)
     /\ inbox' = ToRoom(s, g, [kind |-> "user-stop-typing", userId |-> socks[s].user,
                               groupId |-> g])
  /\ outbox' = [outbox EXCEPT ![s] = Tail(@)]
  /\ UNCHANGED <<notBrowser, evLeft, currentGroup, isTyping, typingTimeout, typingUsers, messages>>

\* socket.on('send-message') for the event the page emitted
ServeSendMessage(s) ==
  /\ Emitted(s, "send-message")
  /\ LET g == Head(outbox[s]).groupId
         message == [id |-> clock, senderId |-> socks[s].user, groupId |-> g,
                     contentLen |-> 1, type |-> "text"]
     IN /\ Room(s, g, TRUE)
        /\ inbox' = ToSelf(ToRoom(s, g, [kind |-> "new-message", message |-> message]),
                           s, [kind |-> "message-sent", message |-> message])
  /\ outbox' = [outbox EXCEPT ![s] = Tail(@)]
  /\ UNCHANGED <<notBrowser, evLeft, currentGroup, isTyping, typingTimeout, typingUsers, messages>>

\* socket.on('mark-read') for the event the page emitted
ServeMarkRead(s) ==
  /\ Emitted(s, "mark-read")
  /\ LET ev == Head(outbox[s]) IN
     /\ Room(s, ev.groupId, FALSE)
     /\ inbox' = ToRoom(s, ev.groupId,
                        [kind |-> "message-read", messageId |-> ev.messageId,
                         userId |-> socks[s].user, groupId |-> ev.groupId, readAt |-> clock])
  /\ outbox' = [outbox EXCEPT ![s] = Tail(@)]
  /\ UNCHANGED <<notBrowser, evLeft, currentGroup, isTyping, typingTimeout, typingUsers, messages>>

\* handleUserTyping(data)
HandleUserTyping(s) ==
  /\ Delivered(s, "user-typing")
  /\ LET data == Head(inbox[s]) IN
     typingUsers' = IF data.groupId = currentGroup[s] /\ data.userId # socks[s].user
                    THEN [typingUsers EXCEPT ![s] = @ \cup {UserNameOf(data)}]
                    ELSE typingUsers
  /\ inbox' = [inbox EXCEPT ![s] = Tail(@)]
  /\ UNCHANGED <<notBrowser, evLeft, currentGroup, isTyping, typingTimeout, messages, outbox>>

\* handleUserStopTyping(data)
HandleUserStopTyping(s) ==
  /\ Delivered(s, "user-stop-typing")
  /\ LET data == Head(inbox[s]) IN
     typingUsers' = IF data.groupId = currentGroup[s]
                    THEN [typingUsers EXCEPT ![s] = @ \ {UserNameOf(data)}]
                    ELSE typingUsers
  /\ inbox' = [inbox EXCEPT ![s] = Tail(@)]
  /\ UNCHANGED <<notBrowser, evLeft, currentGroup, isTyping, typingTimeout, messages, outbox>>

\* handleNewMessage(message): push, and mark-read when the group is shown
HandleNewMessage(s) ==
  /\ Delivered(s, "new-message")
  /\ LET message == Head(inbox[s]).message IN
     /\ messages' = [messages EXCEPT ![s][message.groupId] = Append(@, message.id)]
     /\ outbox' = IF message.groupId = currentGroup[s]
                  THEN Emit(s, [kind |-> "mark-read", messageId |-> message.id,
                                groupId |-> message.groupId])
                  ELSE outbox
  /\ inbox' = [inbox EXCEPT ![s] = Tail(@)]
  /\ UNCHANGED <<notBrowser, evLeft, currentGroup, isTyping, typingTimeout, typingUsers>>

\* handleMessageSent(message): push
HandleMessageSent(s) ==
  /\ Delivered(s, "message-sent")
  /\ LET message == Head(inbox[s]).message IN
     messages' = [messages EXCEPT ![s][message.groupId] = Append(@, message.id)]
  /\ inbox' = [inbox EXCEPT ![s] = Tail(@)]
  /\ UNCHANGED <<notBrowser, evLeft, currentGroup, isTyping, typingTimeout, typingUsers, outbox>>

\* handleMessageRead(data): nothing of the page's state changes
HandleMessageRead(s) ==
  /\ Delivered(s, "message-read")
  /\ inbox' = [inbox EXCEPT ![s] = Tail(@)]
  /\ UNCHANGED <<notBrowser, evLeft, uiVars>>

\* users 2 and 3 are members of group 2 and user 2 also of group 1; session 1
\* (user 2) and session 2 (user 3) are connected and have joined the rooms of
\* their groups; their pages have just been constructed
InitBrowser ==
  /\ userRole \in RoleTables
  /\ userRole[2] = "field_staff"
  /\ createdBy = [g \in GroupIds |-> IF g <= 2 THEN 1 ELSE NoGroup]
  /\ groupName = [g \in GroupIds |-> IF g = 1 THEN "General" ELSE IF g = 2 THEN "Field" ELSE ""]
  /\ members = [g \in GroupIds |-> [u \in Users |->
                  IF g = 2 /\ u = 1 THEN "admin"
                  ELSE IF (g = 2 /\ u \in {2, 3}) \/ (g = 1 /\ u = 2) THEN "member"
                  ELSE NoRow]]
  /\ joinedAt = JoinedAtStart
  /\ msgs = [m \in MsgIds |-> Absent]
  /\ tagRows = <<>>
  /\ status = [m \in MsgIds |-> [u \in Users |-> Absent]]
  /\ statusRows = EmptyBag
  /\ nextMsgId = 1
  /\ clock = 0
  /\ reqs = [r \in ReqIds |-> Idle]
  /\ opsLeft = MaxOps
  /\ authCall = Absent
  /\ socks = [s \in SockIds |-> IF s = 1 THEN [st |-> "live", user |-> 2, cred |-> "active"]
                               ELSE IF s = 2 THEN [st |-> "live", user |-> 3, cred |-> "active"]
                               ELSE [st |-> "new", user |-> 0, cred |-> "none"]]
  /\ rooms = [s \in SockIds |-> IF s = 1 THEN {1, 2} ELSE IF s = 2 THEN {2} ELSE {}]
  /\ activeUsers = [u \in Users |-> IF u = 2 THEN [socketId |-> 1]
                                   ELSE IF u = 3 THEN [socketId |-> 2] ELSE Absent]
  /\ userRooms = [u \in Users |-> IF u = 2 THEN [groups |-> {1, 2}]
                                 ELSE IF u = 3 THEN [groups |-> {2}] ELSE Absent]
  /\ evictTimers = [u \in Users |-> 0]
  /\ inbox = [s \in SockIds |-> <<>>]
  /\ evLeft = MaxEvents
  /\ InitClient
  /\ netOnline /\ ~windowApp
  /\ InitUI

NextBrowser ==
  \/ ClockTick
  \/ \E s \in SockIds :
       \/ \E g \in GroupIds : SelectGroup(s, g)
       \/ HandleTyping(s)
       \/ TypingTimeoutFires(s)
       \/ PageSendMessage(s)
       \/ ServeTypingStart(s)
       \/ ServeTypingStop(s)
       \/ ServeSendMessage(s)
       \/ ServeMarkRead(s)
       \/ HandleUserTyping(s)
       \/ HandleUserStopTyping(s)
       \/ HandleNewMessage(s)
       \/ HandleMessageSent(s)
       \/ HandleMessageRead(s)

SpecBrowser == InitBrowser /\ [][NextBrowser]_vars

\* the timer fires, the server handles what a page emitted and a page handles
\* what was delivered to it; the user's input gets no fairness
BrowserFairness ==
  /\ WF_vars(\E s \in SockIds : TypingTimeoutFires(s))
  /\ WF_vars(\E s \in SockIds : ServeTypingStart(s) \/ ServeTypingStop(s)
                                  \/ ServeSendMessage(s) \/ ServeMarkRead(s))
  /\ WF_vars(\E s \in SockIds : HandleUserTyping(s) \/ HandleUserStopTyping(s)
                                  \/ HandleNewMessage(s) \/ HandleMessageSent(s)
                                  \/ HandleMessageRead(s))

SpecBrowserLive == InitBrowser /\ [][NextBrowser]_vars /\ BrowserFairness

\* C34: a name a page shows as typing is eventually removed from its typing set
C34_TypingCleared ==
  \A s \in SockIds, u \in Users : (u \in typingUsers[s]) ~> (u \notin typingUsers[s])

\* C35: the local message list of a group never holds the same message id twice
C35_NoDuplicateIds ==
  \A s \in SockIds, g \in GroupIds :
    \A i, j \in 1..Len(messages[s][g]) : i # j => messages[s][g][i] # messages[s][g][j]

(* ------- SpecQueue: replay of a sync queue that holds entries ---------- *)
\* the database is open and MaxQueued actions were queued while offline, so
\* no scan has run yet; the page may or may not expose window.app
InitQueue ==
  /\ InitTables
  /\ userRole[2] = "field_staff"
  /\ authCall = Absent
  /\ socks = [s \in SockIds |-> [st |-> "new", user |-> 0, cred |-> "none"]]
  /\ rooms = [s \in SockIds |-> {}]
  /\ activeUsers = [u \in Users |-> Absent]
  /\ userRooms = [u \in Users |-> Absent]
  /\ evictTimers = [u \in Users |-> 0]
  /\ inbox = [s \in SockIds |-> <<>>]
  /\ evLeft = MaxEvents
  /\ db = TRUE
  /\ netOnline = FALSE
  /\ omOnline = FALSE
  /\ \E types \in [1..MaxQueued -> TypeChoices] :
       /\ syncStore = [k \in Keys |->
                         IF k <= MaxQueued
                         THEN [id |-> k, type |-> types[k], aid |-> k, attempts |-> 0]
                         ELSE Absent]
       /\ hist = [a \in Aids |->
                    IF a <= MaxQueued
                    THEN [NoHist EXCEPT !.type = types[a], !.durable = TRUE]
                    ELSE NoHist]
  /\ nextKey = MaxQueued + 1
  /\ memQueue = <<>>
  /\ scanTimers = 0
  /\ scans = [k \in ScanIds |-> NoScan]
  /\ windowApp \in BOOLEAN
  /\ appSocket = IF windowApp THEN "connected" ELSE "none"
  /\ appOnline = FALSE
  /\ offlineQueue = <<>>
  /\ nextAid = MaxQueued + 1

NextQueue ==
  \/ GoOnline
  \/ GoOffline
  \/ \E k \in ScanIds :
       \/ ScanEmit(k)
       \/ ScanFetch(k)
       \/ ScanUnknown(k)
       \/ \E ok \in BOOLEAN : ScanFetchDone(k, ok)

SpecQueue == InitQueue /\ [][NextQueue]_vars

QueueFairness ==
  /\ WF_vars(\E k \in ScanIds : ScanEmit(k) \/ ScanFetch(k) \/ ScanUnknown(k))
  /\ WF_vars(\E k \in ScanIds, ok \in BOOLEAN : ScanFetchDone(k, ok))

SpecQueueLive == InitQueue /\ [][NextQueue]_vars /\ QueueFairness

\* C32: if the browser stays online from some point on, every queued entry
\* eventually leaves the queue, confirmed or abandoned
C32_EventuallySettled ==
  \A a \in Aids : (<>[]netOnline) => <>(hist[a].durable => ~InStore(a))

(* ------- SpecStatus: the statements that write message_status --------- *)
\* message_status as a bag of rows, so that two rows of one (message, user)
\* pair would show; the statements run in any order on the stored messages.
SameKey(row, m, u) == row.message_id = m /\ row.user_id = u

\* UNIQUE(message_id, user_id): a row of that pair is already stored
StatusConflict(rows, m, u) == \E row \in BagToSet(rows) : SameKey(row, m, u)

\* the table without the rows of pair (m, u)
WithoutPair(rows, m, u) == [row \in {x \in BagToSet(rows) : ~SameKey(x, m, u)} |-> rows[row]]

\* the table without the rows of message m
WithoutMessage(rows, m) == [row \in {x \in BagToSet(rows) : x.message_id # m} |-> rows[row]]

\* the number of rows of pair (m, u)
PairRows(rows, m, u) ==
  BagCardinality([row \in {x \in BagToSet(rows) : SameKey(x, m, u)} |-> rows[row]])

\* an insert that meets no constraint: the new row is added beside the old
InsertOrReplaceAny(rows, row) == rows (+) SetToBag({row})

\* INSERT OR REPLACE: the conflicting row is deleted, then the row inserted
InsertOrReplace(rows, row) ==
  WithoutPair(rows, row.message_id, row.user_id) (+) SetToBag({row})

RECURSIVE ReplaceEach(_, _, _)
\* one INSERT OR REPLACE per message selected, for reader u
ReplaceEach(rows, ms, u) ==
  IF ms = {} THEN rows
  ELSE LET m == CHOOSE x \in ms : \A y \in ms : x <= y IN
       ReplaceEach(InsertOrReplace(rows, [message_id |-> m, user_id |-> u,
                                          read_at |-> clock, delivered_at |-> clock]),
                   ms \ {m}, u)

\* the fan-out INSERT of create-message: it aborts as a whole on a conflict
FanOutStatement(m) ==
  /\ msgs[m] # Absent
  /\ LET g == msgs[m].group
         new == {[message_id |-> m, user_id |-> u,
                  read_at |-> IF u = msgs[m].sender THEN clock ELSE Null,
                  delivered_at |-> clock] : u \in GroupMembers(g)}
     IN statusRows' = IF \E u \in GroupMembers(g) : StatusConflict(statusRows, m, u)
                      THEN statusRows
                      ELSE statusRows (+) SetToBag(new)
  /\ UNCHANGED <<userRole, groupTables, msgs, tagRows, status, nextMsgId, clock, reqs, opsLeft,
                 authCall, sockVars, clientVars, uiVars>>

\* the batch read of list-messages, reached after requireGroupAccess('read')
BatchReadStatement(u, g) ==
  /\ CanAccessGroup(u, g, "read", FALSE)
  /\ statusRows' = ReplaceEach(statusRows, {m \in GroupMsgs(g) : msgs[m].sender # u}, u)
  /\ UNCHANGED <<userRole, groupTables, msgs, tagRows, status, nextMsgId, clock, reqs, opsLeft,
                 authCall, sockVars, clientVars, uiVars>>

\* DELETE FROM message_status WHERE message_id = ? of delete-message
DeleteStatusStatement(m) ==
  /\ msgs[m] # Absent
  /\ statusRows' = WithoutMessage(statusRows, m)
  /\ UNCHANGED <<userRole, groupTables, msgs, tagRows, status, nextMsgId, clock, reqs, opsLeft,
                 authCall, sockVars, clientVars, uiVars>>

\* group 2 with members 1 (admin), 2 and 3; message 1 by user 1 and message 2
\* by user 2 are stored and no message_status row is written yet
InitStatus ==
  /\ userRole \in RoleTables
  /\ createdBy = [g \in GroupIds |-> IF g <= 2 THEN 1 ELSE NoGroup]
  /\ groupName = [g \in GroupIds |-> IF g = 1 THEN "General" ELSE IF g = 2 THEN "Field" ELSE ""]
  /\ members = [g \in GroupIds |-> [u \in Users |->
                  IF g = 2 /\ u = 1 THEN "admin"
                  ELSE IF g = 2 /\ u \in {2, 3} THEN "member" ELSE NoRow]]
  /\ joinedAt = JoinedAtStart
  /\ msgs = [m \in MsgIds |->
               IF m <= 2 THEN [sender |-> m, group |-> 2, contentLen |-> 1, type |-> "text",
                               reply_to |-> 0, created_at |-> 0, edited_at |-> Null]
               ELSE Absent]
  /\ tagRows = <<>>
  /\ status = [m \in MsgIds |-> [u \in Users |-> Absent]]
  /\ statusRows = EmptyBag
  /\ InitUI
  /\ nextMsgId = 3
  /\ clock = 0
  /\ reqs = [r \in ReqIds |-> Idle]
  /\ opsLeft = MaxOps
  /\ authCall = Absent
  /\ InitRegistry
  /\ netOnline /\ ~windowApp   \* no browser takes part

NextStatus ==
  \/ ClockTick
  \/ \E m \in MsgIds : FanOutStatement(m)
  \/ \E u \in Users, g \in GroupIds : BatchReadStatement(u, g)
  \/ \E m \in MsgIds : DeleteStatusStatement(m)

SpecStatus == InitStatus /\ [][NextStatus]_vars

\* C25: message_status never holds two rows of the same (message, user) pair
C25_OneRowPerPair ==
  \A m \in MsgIds, u \in Users : PairRows(statusRows, m, u) <= 1

\* a batch read at time 1 has replaced a row that the fan-out wrote at time 0
C25_Witness ==
  \E m \in MsgIds, u \in Users :
    /\ msgs[m] # Absent /\ u # msgs[m].sender
    /\ BagIn([message_id |-> m, user_id |-> u, read_at |-> 1, delivered_at |-> 1], statusRows)
    /\ BagIn([message_id |-> m, user_id |-> msgs[m].sender, read_at |-> 0, delivered_at |-> 0],
             statusRows)

C12_ExactlyOneRow ==
  \A a \in Aids :
    (hist[a].type = "message" /\ hist[a].durable) =>
      /\ hist[a].rows <= 1
      /\ (~InStore(a) /\ hist[a].reports = 0) => hist[a].rows = 1

\* C13: two scans in progress never process the same syncQueue entry id at
\* the same time
C13_NoDoubleProcessing ==
  \A k, j \in ScanIds :
    (k # j /\ scans[k].pc = "fetch" /\ scans[j].pc = "fetch") =>
      Current(k).id # Current(j).id

\* C22: the step that stores a message row also stores the message_status
\* row of every member of its group: the rows of one create-message become
\* visible together
C22_RowsAppearTogether ==
  [][\A m \in MsgIds :
       (msgs[m] = Absent /\ msgs'[m] # Absent) =>
         \A u \in Users : members'[msgs'[m].group][u] # NoRow => status'[m][u] # Absent
    ]_vars

\* C23: a create-message request that has ended in a failure has left none
\* of its rows behind: no message row, no tag row, no message_status row
C23_FailureLeavesNothing ==
  \A r \in ReqIds :
    LET q == reqs[r] IN
    (q.kind = "createMessage" /\ q.pc = "done" /\ q.code = 500 /\ q.msg \in MsgIds) =>
      /\ msgs[q.msg] = Absent
      /\ \A i \in 1..Len(tagRows) : tagRows[i].message_id # q.msg
      /\ \A u \in Users : status[q.msg][u] = Absent

\* C26: a user who holds a live connection has an entry in activeUsers
C26_LiveUserRegistered ==
  \A s \in SockIds : Live(s) => activeUsers[socks[s].user] # Absent

\* C37: the rooms a live session has joined are tracked in userRooms under
\* the session's user
C37_RoomsTracked ==
  \A s \in SockIds :
    (Live(s) /\ rooms[s] # {}) =>
      /\ userRooms[socks[s].user] # Absent
      /\ rooms[s] \subseteq userRooms[socks[s].user].groups

\* C28: no new-message or message-sent event carries a message whose content
\* is empty or longer than 5000 characters, and no such message row is stored
C28_MalformedRefused ==
  /\ \A s \in SockIds : \A i \in 1..Len(inbox[s]) :
       inbox[s][i].kind \in {"new-message", "message-sent"} =>
         (inbox[s][i].message.contentLen >= 1 /\ inbox[s][i].message.contentLen <= MaxContent)
  /\ \A m \in MsgIds :
       msgs[m] # Absent => (msgs[m].contentLen >= 1 /\ msgs[m].contentLen <= MaxContent)

\* C30: every group row has the admin membership row of its creator
C30_CreatorIsAdmin ==
  \A g \in GroupIds : GroupExists(g) => members[g][createdBy[g]] = "admin"

\* C29: a session is live (or was, before it closed) only if its token
\* verified and the users lookup returned an active user; a handshake with
\* a bad token, an inactive user or a failed lookup is rejected, and a
\* rejected socket has no registry entry, no room and no event
C29_HandshakeGate ==
  \A s \in SockIds :
    /\ socks[s].st \in {"live", "closed"} => (socks[s].cred = "active" /\ socks[s].user \in Users)
    /\ socks[s].cred \in {"token", "inactive", "fails"} => socks[s].st = "rejected"
    /\ socks[s].st = "rejected" =>
         /\ rooms[s] = {} /\ inbox[s] = <<>>
         /\ \A u \in Users : activeUsers[u] # Absent => activeUsers[u].socketId # s

C29_Witness ==
  \E s, t \in SockIds :
    /\ socks[s].st = "rejected" /\ socks[s].cred = "inactive"
    /\ socks[t].st = "live"
    /\ activeUsers[socks[t].user] # Absent /\ activeUsers[socks[t].user].socketId = t

\* C21: once a delete-message request has answered 200, no message_tags row
\* and no message_status row references the deleted message
C21_DeleteCascades ==
  \A r \in ReqIds :
    LET q == reqs[r] IN
    (q.kind = "deleteMessage" /\ q.pc = "done" /\ q.code = 200) =>
      /\ \A i \in 1..Len(tagRows) : tagRows[i].message_id # q.msg
      /\ \A u \in Users : status[q.msg][u] = Absent

\* C24: a user whose membership row was created after a message was created
\* has no message_status row for that message
C24_NoRetroactiveRow ==
  \A m \in MsgIds, u \in Users :
    (/\ msgs[m] # Absent
     /\ joinedAt[msgs[m].group][u] # Null
     /\ joinedAt[msgs[m].group][u] > msgs[m].created_at) => status[m][u] = Absent

====
